---- MODULE Spec2Model ----
(***************************************************************************)
(* aiomanager: a TaskManager (supervisor) running Tasks inside one anyio   *)
(* task group, modelled as a state machine.                                *)
(*                                                                         *)
(* One TaskManager is used as a scoped resource by one caller ("the        *)
(* body").  Every Task the body submits is run by the scheduler as two     *)
(* coroutines: the host, Task.__call__, which owns the task's own task     *)
(* group, and the child, Task.__task__, which runs the wrapped function    *)
(* inside anyio.move_on_after.  The scheduler is anyio 3 on asyncio:       *)
(* coroutines run one at a time between suspension points, new coroutines  *)
(* first run in the order they were spawned, TaskGroup.start waits inside  *)
(* a shield, and a cancelled scope delivers the cancellation to a          *)
(* coroutine suspended in it at that coroutine's next step.                *)
(***************************************************************************)
EXTENDS Integers, Sequences, FiniteSets

\* ---------------------------------------------------------------- bounds
MaxTasks == 2
MaxSusp == 1
MaxTime == 2
MaxCancels == 2
MaxArg == 3
MaxClock == 3

\* ------------------------------------------------- Option / Result values
NOTHING == <<>>
Some(x) == <<x>>
Ok(v) == <<"Ok", v>>
Err(e) == <<"Err", e>>
IsSome(o) == o # NOTHING
Unwrap(o) == o[1]
\* Result.__bool__: Ok is truthy, Err is falsy
ResultBool(r) == r[1] = "Ok"
\* An argument "float | None": PyNone, or Float(x).  Python truthiness of
\* such an argument: None and 0 are both falsy.
PyNone == <<>>
Float(x) == <<x>>
Truthy(x) == x # PyNone /\ x[1] # 0

\* ------------------------------------------------------------ deadline.py
Min(a, b) == IF a <= b THEN a ELSE b

create_deadline(timeout, deadline, clock) ==
    IF Truthy(deadline) /\ Truthy(timeout)
    THEN Some(Min(clock + timeout[1], deadline[1]))
    ELSE IF Truthy(deadline) THEN Some(deadline[1])
    ELSE IF Truthy(timeout) THEN Some(clock + timeout[1])
    ELSE NOTHING

\* a variant of deadline_is_expired that is false at the deadline itself
deadline_is_expired_after(deadline, clock) == deadline - clock < 0

deadline_is_expired(deadline, clock) == deadline - clock <= 0

deadline_to_timeout(deadline, clock) == deadline - clock

\* a variant of check_deadline_err that never reports an expired deadline
check_deadline_err_never(deadline, clock) == FALSE

\* check_deadline(option).err() is some iff a deadline is set and expired
check_deadline_err(deadline, clock) ==
    IsSome(deadline) /\ deadline_is_expired(Unwrap(deadline), clock)

\* ------------------------------------------------------------ TaskStatus
CREATED == "CREATED"
STARTING == "STARTING"
PENDING == "PENDING"
CANCELLED == "CANCELLED"
SUCCESS == "SUCCESS"
FAILURE == "FAILURE"
TIMEOUT == "TIMEOUT"
EXCEPTION == "EXCEPTION"

TaskStatus == {CREATED, STARTING, PENDING, CANCELLED, SUCCESS, FAILURE, TIMEOUT, EXCEPTION}

\* Task.done(): the terminal statuses
Terminal == {FAILURE, SUCCESS, CANCELLED, EXCEPTION, TIMEOUT}

\* --------------------------------------------------------------- inputs
\* What a wrapped function does when it runs: it suspends (at most MaxSusp
\* times), returns Ok or Err, or raises an Exception or another
\* BaseException.  The function of the n-th task carries the payload n.
Ends == {"Ok", "Err", "Exception", "BaseException"}
Steps == {"suspend"} \cup Ends
Payload(n) == n
DeadlineArgs == {PyNone} \cup {Float(d) : d \in 0..MaxTime}
TimeoutArgs == {PyNone, Float(0), Float(1)}

\* ---------------------------------------------------------------- state
VARIABLES
    tm,      \* the TaskManager: its fields and its task group
    tasks,   \* the Tasks created through the manager, in creation order
    body,    \* the caller using the manager as a scoped resource
    now,     \* the clock, time()
    api      \* history: the calls the body made on tasks and on the manager

vars == <<tm, tasks, body, now, api>>

TaskIds == 1..Len(tasks)

\* Task.__init__
Task(func, deadline) ==
    [ func |-> func,                \* the payload of the wrapped function
      deadline |-> deadline,
      status |-> CREATED,
      result |-> NOTHING,
      exception |-> NOTHING,
      shutdown_event |-> NOTHING,   \* Some(is_set)
      task_group |-> NOTHING,       \* Some(cancel_scope.cancel_called)
      ephemeral_task_manager |-> NOTHING,   \* Some("tm"): the manager is private
      catch |-> {},                 \* the classes func was wrapped with
      parent_task_manager |-> NOTHING,      \* Some("tm"): built by the manager
      scope |-> "none",             \* the move_on_after scope of __task__
      host |-> "none",              \* where the coroutine __call__ is
      child |-> "none",             \* where the coroutine __task__ is
      left |-> MaxSusp,             \* suspensions the function may still make
      expired_at_call |-> FALSE ]   \* history: the call's arguments were expired

\* TaskManager.__init__
TaskManager ==
    [ closed |-> FALSE,             \* _closed
      opened |-> FALSE,             \* _stack, _shutdown_event, _anyio_task_group set
      cancel_called |-> FALSE,      \* _anyio_task_group.cancel_scope.cancel_called
      shutdown_set |-> FALSE,       \* _shutdown_event.is_set()
      child_error |-> FALSE,        \* the task group holds an error of a child
      outer |-> NOTHING ]           \* the task group that a second open() replaced

\* The task group that a second open() replaced stays entered and is never
\* left: the new one is nested in it.  It is kept as its cancel_called flag
\* and the number of tasks that were given to it (the tasks 1..tasks).
Outer(m) == Some([cancel_called |-> m.cancel_called, tasks |-> Len(tasks)])
\* the task was given to the replaced task group
InOuter(m, task) == IsSome(m.outer) /\ task.func <= Unwrap(m.outer).tasks
\* the replaced task group has been cancelled
OuterCancelled(m) == IsSome(m.outer) /\ Unwrap(m.outer).cancel_called

\* The record of a call: the method, the task it was made on (0: no task of
\* the manager), how far the call is ("running", "returned", "raised"),
\* whether the caller suspended in it, the value returned, the error raised,
\* from where the body made it, and, for a call on a Task that was
\* constructed and never submitted, that Task after the call.  A call of
\* wait_for has the tasks of the manager it was given (listed) and those of
\* them whose wait() has suspended (waiting).  A call of a function of
\* deadline.py has its arguments (args).
Call(op, task) ==
    [ op |-> op, task |-> task, state |-> "running", suspended |-> FALSE,
      ret |-> NOTHING, error |-> "none", from |-> "none", fresh |-> NOTHING,
      listed |-> {}, waiting |-> {}, args |-> <<>> ]

\* No call yet, no task has entered PENDING, no cancel() was made on a
\* PENDING task, and no coroutine other than the body has called wait() or
\* kill() on the manager ("waiting", "returned at once", "returned")
NoCalls ==
    [ call |-> Call("none", 0),
      pending |-> {},
      ncancel |-> [t \in 1..MaxTasks |-> 0],
      watch |-> "none" ]

Init ==
    /\ tm = TaskManager
    /\ tasks = <<>>
    /\ body = [pc |-> "idle", start |-> 0, exc |-> FALSE, raised |-> FALSE,
               cancel_calls |-> FALSE, cancelled |-> FALSE, plain |-> FALSE]
    /\ now = 1
    /\ api = NoCalls

\* ---------------------------------------------------------- TaskManager
\* a variant of TaskManager_cancel without the check that the manager is open
TaskManager_cancel_unopened(m) == [m EXCEPT !.cancel_called = TRUE]

\* TaskManager.cancel
TaskManager_cancel(m) ==
    IF m.opened /\ ~m.cancel_called THEN [m EXCEPT !.cancel_called = TRUE] ELSE m

\* TaskManager.open, through __aenter__
TaskManager_open ==
    /\ body.pc = "idle"
    /\ tm' = [tm EXCEPT !.opened = TRUE]
    /\ body' = [body EXCEPT !.pc = "open"]
    /\ UNCHANGED <<tasks, now>>

\* The deadline or timeout given to a call names an instant that is not
\* after the clock reading of the call.
ArgsExpired(timeout, deadline, clock) ==
    \/ deadline # PyNone /\ deadline[1] - clock <= 0
    \/ timeout # PyNone /\ timeout[1] <= 0

\* The task that submit_task and start_task build from their arguments, with
\* the fast path of a deadline that is already expired.
NewTask(timeout, deadline) ==
    LET deadline_option == create_deadline(timeout, deadline, now)
        task == [Task(Payload(Len(tasks) + 1), deadline_option) EXCEPT
                    !.parent_task_manager = Some("tm"),
                    !.expired_at_call = ArgsExpired(timeout, deadline, now)]
    IN  IF IsSome(deadline_option) /\ deadline_is_expired(Unwrap(deadline_option), now)
        THEN [task EXCEPT !.status = TIMEOUT]
        ELSE [task EXCEPT !.host = "scheduled"]

\* TaskManager.submit_task: the task is handed to start_soon, or is TIMEOUT
submit_task(timeout, deadline) ==
    /\ body.pc = "open"
    /\ tm.opened /\ ~tm.closed
    /\ Len(tasks) < MaxTasks
    /\ LET task == NewTask(timeout, deadline)
       IN  /\ tasks' = Append(tasks, task)
           /\ tm' = IF task.status = TIMEOUT THEN TaskManager_cancel(tm) ELSE tm
    /\ UNCHANGED <<body, now>>

\* a variant of start_task that does not wait for the task to start
start_task_nowait(timeout, deadline) == submit_task(timeout, deadline)

\* TaskManager.start_task: as submit_task, but the caller waits in
\* TaskGroup.start until the task has called task_status.started()
start_task(timeout, deadline) ==
    /\ body.pc = "open"
    /\ tm.opened /\ ~tm.closed
    /\ Len(tasks) < MaxTasks
    /\ LET task == NewTask(timeout, deadline)
       IN  /\ tasks' = Append(tasks, task)
           /\ tm' = IF task.status = TIMEOUT THEN TaskManager_cancel(tm) ELSE tm
           /\ body' = IF task.status = TIMEOUT THEN body
                      ELSE [body EXCEPT !.pc = "start", !.start = Len(tasks) + 1]
    /\ UNCHANGED now

\* start_task returns: the task has signalled task_status.started()
start_task_return ==
    /\ body.pc = "start"
    /\ tasks[body.start].host \in {"joining", "done"}
    /\ body' = [body EXCEPT !.pc = "open", !.start = 0]
    /\ UNCHANGED <<tm, tasks, now>>

\* TaskManager.cancel called by the body
cancel ==
    /\ body.pc = "open"
    /\ tm' = TaskManager_cancel(tm)
    /\ body' = [body EXCEPT !.cancel_calls = TRUE]
    /\ UNCHANGED <<tasks, now>>

\* a variant of aexit that does not cancel the manager
aexit_nocancel(exc) ==
    /\ body.pc = "open"
    /\ body' = [body EXCEPT !.pc = "closing", !.exc = exc]
    /\ UNCHANGED <<tm, tasks, now>>

\* TaskManager.__aexit__: cancel if an error is in flight, then close(); the
\* exit stack leaves the task group, which waits for its children
aexit(exc) ==
    /\ body.pc = "open"
    /\ tm' = IF exc THEN TaskManager_cancel(tm) ELSE tm
    /\ body' = [body EXCEPT !.pc = "closing", !.exc = exc]
    /\ UNCHANGED <<tasks, now>>

\* The body is suspended at an await of its own inside the scope, which is
\* not shielded, when the cancel scope of the manager's task group is
\* cancelled: the body is the host of that scope, so the cancellation is
\* raised in it and __aexit__ runs with that error in flight.  close() is
\* called without the error, so the exit stack and the task group are left
\* as on a normal exit and the error goes on out of the scope.
body_cancelled ==
    /\ body.pc = "open"
    /\ tm.cancel_called \/ OuterCancelled(tm)
    /\ tm' = TaskManager_cancel(tm)
    /\ body' = [body EXCEPT !.pc = "closing", !.exc = TRUE, !.cancelled = TRUE]
    /\ UNCHANGED <<tasks, now>>

\* a variant of children_finished that does not wait for the children
children_finished_nowait == TRUE

\* the task group of the manager has no child left running
children_finished ==
    \A t \in TaskIds : InOuter(tm, tasks[t]) \/ tasks[t].host \in {"none", "done"}

\* TaskManager.close returns: every child of the task group has finished,
\* the stack's callback sets the shutdown event; an error of a child is
\* raised out of the task group
close_return ==
    /\ body.pc = "closing"
    /\ children_finished
    /\ tm' = [tm EXCEPT !.shutdown_set = TRUE]
    /\ body' = [body EXCEPT !.pc = "closed", !.raised = tm.child_error]
    /\ UNCHANGED <<tasks, now>>

\* ----------------------------------------------------------------- Task
\* a variant of Task.cancel that sets CANCELLED whatever the status is
Task_cancel_force(task) == [task EXCEPT !.status = CANCELLED]

\* a variant of Task.cancel that does nothing
Task_cancel_noop(task) == task

\* Task.cancel
Task_cancel(task) ==
    IF task.status = CREATED THEN [task EXCEPT !.status = CANCELLED]
    ELSE IF task.status \in Terminal THEN task
    ELSE IF IsSome(task.task_group) THEN [task EXCEPT !.task_group = Some(TRUE)]
    ELSE task

\* Where the body can make a call on a task it holds: inside the scope of
\* the manager or after it, inside the scope of a task that api.start_task
\* returned or after it
TaskCallers == {"open", "closed", "task_scope", "task_closed"}

\* Task.cancel called by the body, inside the scope or after it
cancel_task(t) ==
    /\ body.pc \in TaskCallers
    /\ tasks' = [tasks EXCEPT ![t] = Task_cancel(@)]
    /\ body' = [body EXCEPT !.cancel_calls = TRUE]
    /\ UNCHANGED <<tm, now>>

\* a variant of EarlierStarted without any order
EarlierStarted_any(t) == TRUE

\* Coroutines first run in the order they were spawned (the scheduler's run
\* queue is first in, first out).
EarlierStarted(t) ==
    \A u \in 1..(t - 1) : tasks[u].host # "scheduled"
EarlierRunning(t) ==
    \A u \in 1..(t - 1) : tasks[u].host # "scheduled" /\ tasks[u].child # "spawned"

\* Task.__call__, up to "await task_group.start(self.__task__)"
Task_call(task) ==
    [task EXCEPT !.status = STARTING,
                 !.shutdown_event = Some(FALSE),
                 !.task_group = Some(FALSE),
                 !.host = "starting",
                 !.child = "spawned"]

call_begin(t) ==
    /\ tasks[t].host = "scheduled"
    /\ EarlierStarted(t)
    /\ tasks' = [tasks EXCEPT ![t] = Task_call(@)]
    /\ UNCHANGED <<tm, body, now>>

\* a variant of Task_started that leaves the status as it is
Task_started_keep(task) == [task EXCEPT !.host = "joining"]

\* Task.__call__ after task_group.start returned: task_status.started(), then
\* the status check; the task then waits for __task__ in its task group
Task_started(task) ==
    [task EXCEPT !.status = IF @ = STARTING THEN PENDING ELSE @,
                 !.host = "joining"]

call_started(t) ==
    /\ tasks[t].host = "starting"
    /\ tasks[t].child # "spawned"
    /\ tasks' = [tasks EXCEPT ![t] = Task_started(@)]
    /\ UNCHANGED <<tm, body, now>>

\* Task.__call__ leaves its task group: __task__ has finished.  An error
\* that __task__ raised leaves __call__ too, and the manager's task group
\* records it and cancels its scope.
call_exit(t) ==
    /\ tasks[t].host = "joining"
    /\ tasks[t].child \in {"done", "raised"}
    /\ tasks' = [tasks EXCEPT ![t].host = "done"]
    /\ tm' = IF tasks[t].child # "raised" THEN tm
             ELSE IF InOuter(tm, tasks[t])
             THEN [tm EXCEPT !.outer = Some([Unwrap(@) EXCEPT !.cancel_called = TRUE])]
             ELSE [tm EXCEPT !.child_error = TRUE, !.cancel_called = TRUE]
    /\ UNCHANGED <<body, now>>

\* a variant of cancel_called that is true of every scope
cancel_called_any(scope) == TRUE

\* cancel_scope.cancel_called of the move_on_after scope
cancel_called(scope) == scope \in {"expired", "timeout"}

\* a variant of SetEvent that does not set the event
SetEvent_never(event) == event

\* The event is set by "event.set() if not event.is_set()"
SetEvent(event) == IF IsSome(event) THEN Some(TRUE) ELSE event

\* Task.__task__ after the with block: "if cancel_scope.cancel_called"
after_scope(task) ==
    IF cancel_called(task.scope) THEN [task EXCEPT !.status = TIMEOUT] ELSE task

\* a variant of returned whose Exception branch does not return: it goes on
\* to the check of the cancel scope after the with block
returned_no_return(task, ret) ==
    LET result == IF ret = "Ok" THEN Ok(task.func) ELSE Err(task.func)
        end == [task EXCEPT !.shutdown_event = SetEvent(@), !.child = "done"]
    IN  IF ret = "Exception"
        THEN after_scope([end EXCEPT !.status = EXCEPTION, !.exception = Some(ret)])
        ELSE IF ret = "BaseException"
        THEN [end EXCEPT !.status = EXCEPTION, !.exception = Some(ret),
                         !.child = "raised"]
        ELSE IF ResultBool(result)
        THEN [end EXCEPT !.result = Some(result), !.status = SUCCESS]
        ELSE after_scope([end EXCEPT !.result = Some(result), !.status = FAILURE])

\* The classes of the errors that functions raise: ValueError is a
\* subclass of Exception, which is a subclass of BaseException.  An
\* Exception is an error that __task__ stores and silences.
Recoverable == {"Exception", "ValueError"}
IsInstance(exc, classes) ==
    \/ exc \in classes
    \/ exc = "ValueError" /\ "Exception" \in classes
    \/ "BaseException" \in classes

\* How a function ends: it returns a value, or raises an error
func_end(ret, payload) ==
    IF ret = "Ok" THEN <<"return", Ok(payload)>>
    ELSE IF ret = "Err" THEN <<"return", Err(payload)>>
    ELSE <<"raise", ret>>

\* a variant of as_result_async that catches nothing
as_result_async_nocatch(catch, end) ==
    IF end[1] = "raise" THEN end ELSE <<"return", Ok(end[2])>>

\* func.as_result_async, the wrapper: the value the function returns
\* becomes Ok(value), an error that is an instance of a class of catch
\* becomes Err(error), another error is raised
as_result_async(catch, end) ==
    IF end[1] = "raise"
    THEN IF IsInstance(end[2], catch) THEN <<"return", Err(end[2])>> ELSE end
    ELSE <<"return", Ok(end[2])>>

\* the function that the task runs: wrapped when catch classes were given
task_func(task, ret) ==
    IF task.catch # {}
    THEN as_result_async(task.catch, func_end(ret, task.func))
    ELSE func_end(ret, task.func)

\* Task.__task__ when the function returns or raises
returned(task, ret) ==
    LET out == task_func(task, ret)
        end == [task EXCEPT !.shutdown_event = SetEvent(@), !.child = "done"]
    IN  IF out[1] = "raise" /\ out[2] \in Recoverable
        THEN [end EXCEPT !.status = EXCEPTION, !.exception = Some(out[2])]
        ELSE IF out[1] = "raise"
        THEN [end EXCEPT !.status = EXCEPTION, !.exception = Some(out[2]),
                         !.child = "raised"]
        ELSE IF ResultBool(out[2])
        THEN [end EXCEPT !.result = Some(out[2]), !.status = SUCCESS]
        ELSE after_scope([end EXCEPT !.result = Some(out[2]), !.status = FAILURE])

\* The function runs to its next suspension point, or to its end
run_func(task, step) ==
    IF step = "suspend"
    THEN [task EXCEPT !.left = @ - 1, !.child = "susp"]
    ELSE returned(task, step)

\* Task.__task__ enters move_on_after(deadline - time()): a delay that is
\* not positive cancels the scope at once
move_on_after(task) ==
    IF IsSome(task.deadline) /\ deadline_to_timeout(Unwrap(task.deadline), now) <= 0
    THEN [task EXCEPT !.scope = "expired"]
    ELSE [task EXCEPT !.scope = "open"]

\* a variant of fail_fast that cancels the manager whatever the status is
fail_fast_always(m, task) ==
    IF task.child \in {"done", "raised"} THEN TaskManager_cancel(m) ELSE m

\* a variant of fail_fast that does not look at the parent of the task
fail_fast_no_parent(m, task) ==
    IF task.child \in {"done", "raised"} /\ task.status # SUCCESS
    THEN TaskManager_cancel(m) ELSE m

\* the manager is cancelled by a task that ends with another status than
\* SUCCESS, when the task has a parent manager
fail_fast(m, task) ==
    IF /\ task.child \in {"done", "raised"}
       /\ task.status # SUCCESS
       /\ IsSome(task.parent_task_manager)
    THEN TaskManager_cancel(m) ELSE m

\* Task.__task__ starts: move_on_after, task_status.started(), the function
task_begin(t, step) ==
    /\ tasks[t].child = "spawned"
    /\ EarlierRunning(t)
    /\ step = "suspend" => tasks[t].left > 0
    /\ LET task == run_func(move_on_after(tasks[t]), step)
       IN  /\ tasks' = [tasks EXCEPT ![t] = task]
           /\ tm' = fail_fast(tm, task)
    /\ UNCHANGED <<body, now>>

\* a scope around the function of the task has been cancelled
cancel_pending(task) ==
    \/ cancel_called(task.scope)
    \/ task.task_group = Some(TRUE)
    \/ tm.cancel_called /\ ~InOuter(tm, task)
    \/ OuterCancelled(tm)

\* the suspended function is resumed
task_resume(t, step) ==
    /\ tasks[t].child = "susp"
    /\ tasks[t].host # "starting"
    /\ ~cancel_pending(tasks[t])
    /\ step = "suspend" => tasks[t].left > 0
    /\ LET task == run_func(tasks[t], step)
       IN  /\ tasks' = [tasks EXCEPT ![t] = task]
           /\ tm' = fail_fast(tm, task)
    /\ UNCHANGED <<body, now>>

\* a variant of cancelled that does not tell a deadline from a cancellation
cancelled_no_deadline(task) ==
    [task EXCEPT !.status = CANCELLED, !.shutdown_event = SetEvent(@), !.child = "done"]

\* Task.__task__ when the function is cancelled: the except clause of the
\* cancelled class, the finally clause, and the end of the with block, which
\* swallows the cancellation of a scope whose own deadline fired
cancelled(task) ==
    LET end == [task EXCEPT
                  !.status = IF check_deadline_err(task.deadline, now)
                             THEN TIMEOUT ELSE CANCELLED,
                  !.shutdown_event = SetEvent(@),
                  !.child = "done"]
    IN  after_scope(end)

task_cancelled(t) ==
    /\ tasks[t].child = "susp"
    /\ tasks[t].host # "starting"
    /\ cancel_pending(tasks[t])
    /\ LET task == cancelled(tasks[t])
       IN  /\ tasks' = [tasks EXCEPT ![t] = task]
           /\ tm' = fail_fast(tm, task)
    /\ UNCHANGED <<body, now>>

\* the deadline of the move_on_after scope fires while the function is suspended
scope_timeout(t) ==
    /\ tasks[t].child = "susp"
    /\ tasks[t].scope = "open"
    /\ IsSome(tasks[t].deadline)
    /\ now >= Unwrap(tasks[t].deadline)
    /\ tasks' = [tasks EXCEPT ![t].scope = "timeout"]
    /\ UNCHANGED <<tm, body, now>>

\* time passes
tick ==
    /\ now < MaxTime
    /\ now' = now + 1
    /\ UNCHANGED <<tm, tasks, body>>

\* ----------------------------------------------------------------- Next
Next ==
    \/ TaskManager_open /\ UNCHANGED api
    \/ \E to \in TimeoutArgs, d \in DeadlineArgs : submit_task(to, d) /\ UNCHANGED api
    \/ \E to \in TimeoutArgs, d \in DeadlineArgs : start_task(to, d) /\ UNCHANGED api
    \/ start_task_return /\ UNCHANGED api
    \/ cancel /\ UNCHANGED api
    \/ \E exc \in BOOLEAN : aexit(exc) /\ UNCHANGED api
    \/ body_cancelled /\ UNCHANGED api
    \/ close_return /\ UNCHANGED api
    \/ \E t \in TaskIds : cancel_task(t) /\ UNCHANGED api
    \/ \E t \in TaskIds : call_begin(t) /\ UNCHANGED api
    \/ \E t \in TaskIds : call_started(t) /\ UNCHANGED api
    \/ \E t \in TaskIds : call_exit(t) /\ UNCHANGED api
    \/ \E t \in TaskIds, step \in Steps : task_begin(t, step) /\ UNCHANGED api
    \/ \E t \in TaskIds, step \in Steps : task_resume(t, step) /\ UNCHANGED api
    \/ \E t \in TaskIds : task_cancelled(t) /\ UNCHANGED api
    \/ \E t \in TaskIds : scope_timeout(t) /\ UNCHANGED api
    \/ tick /\ UNCHANGED api

Spec == Init /\ [][Next]_vars

\* ------------------------------------------------------- Task queries
\* Task.cancelled
Task_cancelled(task) == task.status \in {TIMEOUT, CANCELLED}
\* Task.ok, Task.err: the payload of the stored Result of that variant
Task_ok(task) ==
    IF IsSome(task.result) /\ Unwrap(task.result)[1] = "Ok"
    THEN Some(Unwrap(task.result)[2]) ELSE NOTHING
Task_err(task) ==
    IF IsSome(task.result) /\ Unwrap(task.result)[1] = "Err"
    THEN Some(Unwrap(task.result)[2]) ELSE NOTHING

NonSuccess == Terminal \ {SUCCESS}

\* ------------------------------------------------ calls made by the body
\* Task.cancel: the value it returns
Task_cancel_ret(task) ==
    IF task.status = CREATED THEN Some(CANCELLED)
    ELSE IF task.status \in Terminal THEN Some(task.status)
    ELSE NOTHING

\* Task.wait up to its suspension: it returns at once on a task that is
\* done, raises when the task has no shutdown event, and waits otherwise
Task_wait_outcome(task) ==
    IF task.status \in Terminal THEN "return"
    ELSE IF ~IsSome(task.shutdown_event) THEN "not started"
    ELSE "suspend"

\* a variant of Task_kill_outcome without the check of the CREATED status
Task_kill_outcome_nocheck(task) ==
    IF IsSome(Task_cancel_ret(task)) THEN "return"
    ELSE Task_wait_outcome(Task_cancel(task))

\* Task.kill: it raises on a CREATED task, returns the status that cancel()
\* returned, and waits otherwise
Task_kill_outcome(task) ==
    IF task.status = CREATED THEN "not started"
    ELSE IF IsSome(Task_cancel_ret(task)) THEN "return"
    ELSE Task_wait_outcome(Task_cancel(task))

\* Task.join on a task that has no ephemeral manager: wait()
Task_join_outcome(task) == Task_wait_outcome(task)

\* what wait(), kill() and join() do up to their suspension, and the task
\* they leave
Outcome(op, task) ==
    CASE op = "wait" -> Task_wait_outcome(task)
      [] op = "kill" -> Task_kill_outcome(task)
      [] op = "join" -> Task_join_outcome(task)

After(op, task) ==
    IF op = "kill" /\ Outcome(op, task) # "not started" THEN Task_cancel(task) ELSE task

\* the record of a call of wait(), kill() or join() with that outcome
Called(op, t, out, task, from) ==
    LET c == [Call(op, t) EXCEPT !.from = from]
    IN  IF out = "return"
        THEN [c EXCEPT !.state = "returned", !.ret = Some(task.status)]
        ELSE IF out = "suspend"
        THEN [c EXCEPT !.suspended = TRUE]
        ELSE [c EXCEPT !.state = "raised", !.error = out]

\* the body calls wait(), kill() or join() on a task of the manager
task_call(op, t) ==
    /\ body.pc \in TaskCallers
    /\ LET out == Outcome(op, tasks[t])
           task == After(op, tasks[t])
       IN  /\ tasks' = [tasks EXCEPT ![t] = task]
           /\ body' = [body EXCEPT
                         !.pc = IF out = "suspend" THEN "wait" ELSE @,
                         !.cancel_calls = IF op = "kill" THEN TRUE ELSE @]
           /\ api' = [api EXCEPT !.call = Called(op, t, out, task, body.pc)]
    /\ UNCHANGED <<tm, now>>

Task_wait(t) == task_call("wait", t)
Task_kill(t) == task_call("kill", t)
Task_join(t) == ~IsSome(tasks[t].ephemeral_task_manager) /\ task_call("join", t)

\* a variant of event_is_set that does not look at the event
event_is_set_always(task) == TRUE

\* anyio.Event.wait returns when the event is set
event_is_set(task) == task.shutdown_event = Some(TRUE)

\* Task.wait after its suspension: the event is set, the status is returned
Task_wait_return ==
    /\ body.pc = "wait"
    /\ event_is_set(tasks[api.call.task])
    /\ api' = [api EXCEPT !.call.state = "returned",
                          !.call.ret = Some(tasks[api.call.task].status)]
    /\ body' = [body EXCEPT !.pc = api.call.from]
    /\ UNCHANGED <<tm, tasks, now>>

\* A Task that was constructed and never submitted
Fresh == Task(Payload(0), NOTHING)

\* wait(), kill() or join() is called on such a Task, before the manager is
\* used
fresh_call(op) ==
    /\ body.pc = "idle"
    /\ Outcome(op, Fresh) # "suspend"
    /\ api' = [api EXCEPT !.call =
                 [Called(op, 0, Outcome(op, Fresh), After(op, Fresh), body.pc)
                    EXCEPT !.fresh = Some(After(op, Fresh))]]
    /\ UNCHANGED <<tm, tasks, body, now>>

\* Task.cancel called by the body, recorded with the value it returned
called_cancel_task(t) ==
    /\ cancel_task(t)
    /\ api' = [api EXCEPT
                 !.call = [Call("cancel", t) EXCEPT
                             !.state = "returned",
                             !.ret = Task_cancel_ret(tasks[t]),
                             !.from = body.pc],
                 !.ncancel[t] = IF tasks[t].status = PENDING
                                THEN Min(@ + 1, MaxCancels) ELSE @]

\* start_task, recorded when the fast path returns the task at once
called_start_task(timeout, deadline) ==
    /\ start_task(timeout, deadline)
    /\ api' = IF body'.pc = "start" THEN api
              ELSE [api EXCEPT !.call =
                      [Call("start_task", Len(tasks'))  EXCEPT
                         !.state = "returned",
                         !.ret = Some(tasks'[Len(tasks')].status),
                         !.from = body.pc]]

\* start_task returns, recorded with the status the task has at that moment
called_start_task_return ==
    /\ start_task_return
    /\ api' = [api EXCEPT
                 !.call = [Call("start_task", body.start) EXCEPT
                             !.state = "returned",
                             !.suspended = TRUE,
                             !.ret = Some(tasks[body.start].status),
                             !.from = "open"]]

\* a variant of submit_check that checks nothing
submit_check_nothing(m) == "none"

\* submit_task and start_task: the checks made before the task is built
submit_check(m) ==
    IF ~m.opened THEN "not started"
    ELSE IF m.closed THEN "closed"
    ELSE "none"

\* submit_task or start_task called on a manager that is not open: it was
\* never opened, or its scope has been left.  When the checks pass, a task
\* with an expired deadline is returned as TIMEOUT, and another one is given
\* to a task group that is not active, which raises.
submit_not_open(op, timeout, deadline) ==
    /\ body.pc \in {"idle", "closed"}
    /\ Len(tasks) < MaxTasks
    /\ LET err == submit_check(tm)
           task == NewTask(timeout, deadline)
           c == [Call(op, 0) EXCEPT !.from = body.pc]
       IN  IF err # "none"
           THEN /\ api' = [api EXCEPT !.call = [c EXCEPT !.state = "raised", !.error = err]]
                /\ UNCHANGED <<tm, tasks>>
           ELSE IF task.status = TIMEOUT
           THEN /\ tasks' = Append(tasks, task)
                /\ tm' = TaskManager_cancel(tm)
                /\ api' = [api EXCEPT !.call =
                             [c EXCEPT !.task = Len(tasks) + 1,
                                       !.state = "returned",
                                       !.ret = Some(TIMEOUT)]]
           ELSE /\ api' = [api EXCEPT !.call =
                             [c EXCEPT !.state = "raised", !.error = "not active"]]
                /\ UNCHANGED <<tm, tasks>>
    /\ UNCHANGED <<body, now>>

\* a step that is no call of the body: the record of a call that is over
\* is dropped, so that the record describes the moment the call ended
Forgotten(a) ==
    [a EXCEPT !.call = IF @.state = "running" THEN @ ELSE Call("none", 0),
              !.watch = IF @ = "waiting" THEN @ ELSE "none"]

forget == api' = Forgotten(api)

\* Task.__call__ after task_group.start returned, recorded when the task
\* enters PENDING
entered_pending(t) ==
    /\ call_started(t)
    /\ api' = [Forgotten(api) EXCEPT
                 !.pending = IF tasks'[t].status = PENDING THEN @ \cup {t} ELSE @]

\* ---------------------------------------------------------------- api.py
\* api.start_task up to its suspension: a private manager is built and
\* opened, and its start_task is called
api_start_task(timeout, deadline) ==
    /\ body.pc = "idle"
    /\ tasks = <<>>
    /\ LET m == [tm EXCEPT !.opened = TRUE]
           task == NewTask(timeout, deadline)
       IN  IF task.status = TIMEOUT
           THEN /\ tasks' = <<[task EXCEPT !.ephemeral_task_manager = Some("tm")]>>
                /\ tm' = TaskManager_cancel(m)
                /\ body' = [body EXCEPT !.pc = "task_scope"]
                /\ api' = [Forgotten(api) EXCEPT !.call =
                             [Call("api.start_task", 1) EXCEPT
                                !.state = "returned",
                                !.ret = Some(TIMEOUT),
                                !.from = body.pc]]
           ELSE /\ tasks' = <<task>>
                /\ tm' = m
                /\ body' = [body EXCEPT !.pc = "api_start", !.start = 1]
                /\ api' = Forgotten(api)
    /\ UNCHANGED now

\* api.start_task returns: the task has signalled task_status.started(), and
\* the private manager is attached to it
api_start_task_return ==
    /\ body.pc = "api_start"
    /\ tasks[body.start].host \in {"joining", "done"}
    /\ tasks' = [tasks EXCEPT ![body.start].ephemeral_task_manager = Some("tm")]
    /\ body' = [body EXCEPT !.pc = "task_scope", !.start = 0]
    /\ api' = [Forgotten(api) EXCEPT !.call =
                 [Call("api.start_task", body.start) EXCEPT
                    !.state = "returned",
                    !.suspended = TRUE,
                    !.ret = Some(tasks[body.start].status),
                    !.from = "idle"]]
    /\ UNCHANGED <<tm, now>>

\* Task.join on a task that has a private manager, up to its suspension:
\* __aexit__ of the manager cancels it when join was given an error, and
\* calls close()
join_ephemeral(t, exc) ==
    /\ body.pc = "task_scope"
    /\ IsSome(tasks[t].ephemeral_task_manager)
    /\ tm' = IF exc THEN TaskManager_cancel(tm) ELSE tm
    /\ body' = [body EXCEPT !.pc = "task_closing", !.exc = exc]
    /\ api' = [Forgotten(api) EXCEPT !.call =
                 [Call("join", t) EXCEPT !.from = body.pc]]
    /\ UNCHANGED <<tasks, now>>

\* a variant of Task_aexit that does not cancel the task
Task_aexit_nocancel(t, exc) == join_ephemeral(t, FALSE)

\* Task.__aexit__: cancel() when an error is in flight, then join() without
\* the error
Task_aexit(t, exc) ==
    /\ body.pc = "task_scope"
    /\ IsSome(tasks[t].ephemeral_task_manager)
    /\ tasks' = [tasks EXCEPT ![t] = IF exc THEN Task_cancel(@) ELSE @]
    /\ body' = [body EXCEPT !.pc = "task_closing", !.exc = exc,
                            !.cancel_calls = IF exc THEN TRUE ELSE @]
    /\ api' = [Forgotten(api) EXCEPT
                 !.call = [Call("join", t) EXCEPT !.from = body.pc],
                 !.ncancel[t] = IF exc /\ tasks[t].status = PENDING
                                THEN Min(@ + 1, MaxCancels) ELSE @]
    /\ UNCHANGED <<tm, now>>

\* Task.join after close() of the private manager: close() raises the error
\* of a child, or returns and wait() is called
join_close_return ==
    /\ body.pc = "task_closing"
    /\ children_finished
    /\ tm' = [tm EXCEPT !.shutdown_set = TRUE]
    /\ LET t == api.call.task
           out == IF tm.child_error THEN "child error" ELSE Task_wait_outcome(tasks[t])
       IN  /\ body' = [body EXCEPT !.pc = IF out = "suspend" THEN "wait" ELSE "task_closed",
                                   !.raised = tm.child_error]
           /\ api' = [api EXCEPT !.call =
                        [Called("join", t, out, tasks[t], "task_closed")
                           EXCEPT !.suspended = TRUE]]
    /\ UNCHANGED <<tasks, now>>

\* a variant of join_closed that cancels the manager whether or not join
\* was given an error
join_closed_cancel(t, exc) ==
    /\ body.pc = "task_closed"
    /\ IsSome(tasks[t].ephemeral_task_manager)
    /\ tm' = TaskManager_cancel(tm)
    /\ api' = [Forgotten(api) EXCEPT !.call =
                 [Called("join", t, "return", tasks[t], "task_closed")
                    EXCEPT !.fresh = Some(exc)]]
    /\ UNCHANGED <<tasks, body, now>>

\* Task.join on a task whose private manager has been closed already:
\* __aexit__ of the manager cancels it when join was given an error, close()
\* finds the exit stack empty, then wait()
join_closed(t, exc) ==
    /\ body.pc = "task_closed"
    /\ IsSome(tasks[t].ephemeral_task_manager)
    /\ tm' = IF exc THEN TaskManager_cancel(tm) ELSE tm
    /\ LET out == Task_wait_outcome(tasks[t])
       IN  /\ body' = [body EXCEPT !.pc = IF out = "suspend" THEN "wait" ELSE @]
           /\ api' = [Forgotten(api) EXCEPT !.call =
                        [Called("join", t, out, tasks[t], "task_closed")
                           EXCEPT !.fresh = Some(exc)]]
    /\ UNCHANGED <<tasks, now>>

\* The deadlines given to the calls of this specification: none, one that
\* is expired at the first clock reading, one that is ahead
CallDeadlines == {PyNone, Float(1), Float(MaxTime)}
CallOps == {"wait", "kill", "join"}
SubmitOps == {"submit_task", "start_task"}

NextCalls ==
    \/ TaskManager_open /\ forget
    \/ \E d \in CallDeadlines : submit_task(PyNone, d) /\ forget
    \/ \E d \in CallDeadlines : called_start_task(PyNone, d)
    \/ called_start_task_return
    \/ cancel /\ forget
    \/ \E exc \in BOOLEAN : aexit(exc) /\ forget
    \/ body_cancelled /\ forget
    \/ close_return /\ forget
    \/ \E t \in TaskIds : called_cancel_task(t)
    \/ \E t \in TaskIds : Task_wait(t)
    \/ \E t \in TaskIds : Task_kill(t)
    \/ \E t \in TaskIds : Task_join(t)
    \/ Task_wait_return
    \/ \E op \in CallOps : fresh_call(op)
    \/ \E op \in SubmitOps, d \in CallDeadlines : submit_not_open(op, PyNone, d)
    \/ \E d \in CallDeadlines : api_start_task(PyNone, d)
    \/ api_start_task_return
    \/ \E t \in TaskIds, exc \in BOOLEAN : join_ephemeral(t, exc)
    \/ \E t \in TaskIds, exc \in BOOLEAN : Task_aexit(t, exc)
    \/ join_close_return
    \/ \E t \in TaskIds, exc \in BOOLEAN : join_closed(t, exc)
    \/ \E t \in TaskIds : call_begin(t) /\ forget
    \/ \E t \in TaskIds : entered_pending(t)
    \/ \E t \in TaskIds : call_exit(t) /\ forget
    \/ \E t \in TaskIds, step \in Steps : task_begin(t, step) /\ forget
    \/ \E t \in TaskIds, step \in Steps : task_resume(t, step) /\ forget
    \/ \E t \in TaskIds : task_cancelled(t) /\ forget
    \/ \E t \in TaskIds : scope_timeout(t) /\ forget
    \/ tick /\ forget

SpecCalls == Init /\ [][NextCalls]_vars

\* ---------------------------------------------------- TaskManager queries
\* TaskManager.closed
TaskManager_closed(m) == m.closed
\* TaskManager.cancelled
TaskManager_cancelled(m) == m.opened /\ m.cancel_called

\* ------------------------------------------------- open() called again
\* TaskManager.open called a second time by the body, inside the scope: the
\* code makes no check, so the call builds a new exit stack, a new event and
\* a new task group, and the manager holds these from then on.  One
\* replaced task group is kept (the call is modelled once).
open_again ==
    /\ body.pc = "open"
    /\ ~IsSome(tm.outer)
    /\ tm' = [tm EXCEPT !.outer = Outer(tm),
                        !.cancel_called = FALSE,
                        !.shutdown_set = FALSE,
                        !.child_error = FALSE]
    /\ api' = [api EXCEPT !.call = [Call("open", 0) EXCEPT
                                      !.state = "returned", !.from = body.pc]]
    /\ UNCHANGED <<tasks, body, now>>

NextReopen ==
    \/ TaskManager_open /\ forget
    \/ open_again
    \/ \E d \in CallDeadlines : submit_task(PyNone, d) /\ forget
    \/ \E d \in CallDeadlines : start_task(PyNone, d) /\ forget
    \/ start_task_return /\ forget
    \/ cancel /\ forget
    \/ \E exc \in BOOLEAN : aexit(exc) /\ forget
    \/ body_cancelled /\ forget
    \/ close_return /\ forget
    \/ \E t \in TaskIds : cancel_task(t) /\ forget
    \/ \E t \in TaskIds : call_begin(t) /\ forget
    \/ \E t \in TaskIds : call_started(t) /\ forget
    \/ \E t \in TaskIds : call_exit(t) /\ forget
    \/ \E t \in TaskIds, step \in Steps : task_begin(t, step) /\ forget
    \/ \E t \in TaskIds, step \in Steps : task_resume(t, step) /\ forget
    \/ \E t \in TaskIds : task_cancelled(t) /\ forget
    \/ \E t \in TaskIds : scope_timeout(t) /\ forget
    \/ tick /\ forget

SpecReopen == Init /\ [][NextReopen]_vars

\* ------------------------------------------- calls made on the manager
\* the record of a call of TaskManager.cancel
CalledCancel ==
    [Call("TaskManager.cancel", 0) EXCEPT !.state = "returned", !.from = body.pc]

\* TaskManager.cancel called by the body inside the scope, recorded
called_cancel ==
    /\ cancel
    /\ api' = [Forgotten(api) EXCEPT !.call = CalledCancel]

\* TaskManager.cancel called by the body before the manager is opened, or
\* after the scope
cancel_outside ==
    /\ body.pc \in {"idle", "closed"}
    /\ tm' = TaskManager_cancel(tm)
    /\ body' = [body EXCEPT !.cancel_calls = TRUE]
    /\ api' = [Forgotten(api) EXCEPT !.call = CalledCancel]
    /\ UNCHANGED <<tasks, now>>

\* a variant of TaskManager_wait_outcome that never waits
TaskManager_wait_outcome_nowait(m) == "return"

\* TaskManager.wait up to its suspension: it returns at once on a manager
\* that has no event (never opened) or whose event is set, and waits
\* otherwise
TaskManager_wait_outcome(m) ==
    IF ~m.opened THEN "return"
    ELSE IF m.shutdown_set THEN "return"
    ELSE "suspend"

Watched(m) ==
    IF TaskManager_wait_outcome(m) = "return" THEN "returned at once" ELSE "waiting"

\* TaskManager.wait called by a coroutine other than the body
TaskManager_wait ==
    /\ api.watch # "waiting"
    /\ api' = [Forgotten(api) EXCEPT !.watch = Watched(tm)]
    /\ UNCHANGED <<tm, tasks, body, now>>

\* TaskManager.kill called by a coroutine other than the body: cancel(),
\* then wait()
TaskManager_kill ==
    /\ api.watch # "waiting"
    /\ tm' = TaskManager_cancel(tm)
    /\ api' = [Forgotten(api) EXCEPT !.watch = Watched(tm')]
    /\ UNCHANGED <<tasks, body, now>>

\* TaskManager.wait after its suspension: the shutdown event is set
TaskManager_wait_return ==
    /\ api.watch = "waiting"
    /\ tm.shutdown_set
    /\ api' = [Forgotten(api) EXCEPT !.watch = "returned"]
    /\ UNCHANGED <<tm, tasks, body, now>>

NextManager ==
    \/ TaskManager_open /\ forget
    \/ \E d \in CallDeadlines : submit_task(PyNone, d) /\ forget
    \/ \E d \in CallDeadlines : start_task(PyNone, d) /\ forget
    \/ start_task_return /\ forget
    \/ called_cancel
    \/ cancel_outside
    \/ TaskManager_wait
    \/ TaskManager_kill
    \/ TaskManager_wait_return
    \/ \E exc \in BOOLEAN : aexit(exc) /\ forget
    \/ body_cancelled /\ forget
    \/ close_return /\ forget
    \/ \E t \in TaskIds : cancel_task(t) /\ forget
    \/ \E t \in TaskIds : call_begin(t) /\ forget
    \/ \E t \in TaskIds : call_started(t) /\ forget
    \/ \E t \in TaskIds : call_exit(t) /\ forget
    \/ \E t \in TaskIds, step \in Steps : task_begin(t, step) /\ forget
    \/ \E t \in TaskIds, step \in Steps : task_resume(t, step) /\ forget
    \/ \E t \in TaskIds : task_cancelled(t) /\ forget
    \/ \E t \in TaskIds : scope_timeout(t) /\ forget
    \/ tick /\ forget

SpecManager == Init /\ [][NextManager]_vars

\* ------------------------------------------------------------- wait_for
\* a variant of wait_for_return that does not wait for the events
wait_for_return_early ==
    /\ body.pc = "wait_for"
    /\ api.call.suspended
    /\ body' = [body EXCEPT !.pc = api.call.from]
    /\ api' = [api EXCEPT !.call.state = "returned"]
    /\ UNCHANGED <<tm, tasks, now>>

\* api.wait_for up to its suspension: a manager of its own is opened, one
\* task running task.wait is submitted to it for each listed task, and its
\* scope is left, which waits for those tasks.  The listed tasks are tasks
\* of the manager, and possibly a Task that was never submitted.
wait_for(listed, fresh) ==
    /\ body.pc \in {"idle", "open", "closed"}
    /\ listed # {} \/ fresh
    /\ body' = [body EXCEPT !.pc = "wait_for"]
    /\ api' = [Forgotten(api) EXCEPT !.call =
                 [Call("wait_for", 0) EXCEPT
                    !.from = body.pc,
                    !.listed = listed,
                    !.fresh = IF fresh THEN Some(Fresh) ELSE NOTHING]]
    /\ UNCHANGED <<tm, tasks, now>>

\* The tasks of wait_for run task.wait(): they first run after every
\* coroutine that was handed to the scheduler before them.  wait() returns
\* at once on a task that is done, raises on a task that has no event (the
\* error is stored in the task of wait_for and goes no further), and
\* suspends inside a shield otherwise.
wait_for_begin ==
    /\ body.pc = "wait_for"
    /\ ~api.call.suspended
    /\ \A u \in TaskIds : tasks[u].host # "scheduled" /\ tasks[u].child # "spawned"
    /\ api' = [api EXCEPT
                 !.call.suspended = TRUE,
                 !.call.waiting = {t \in api.call.listed :
                                     Task_wait_outcome(tasks[t]) = "suspend"},
                 !.call.error = IF \/ IsSome(api.call.fresh)
                                     /\ Task_wait_outcome(Unwrap(api.call.fresh)) = "not started"
                                  \/ \E t \in api.call.listed :
                                        Task_wait_outcome(tasks[t]) = "not started"
                                THEN "not started, swallowed" ELSE "none"]
    /\ UNCHANGED <<tm, tasks, body, now>>

\* wait_for returns: every wait() that suspended has returned because its
\* event is set, so the scope of the manager of wait_for is left
wait_for_return ==
    /\ body.pc = "wait_for"
    /\ api.call.suspended
    /\ \A t \in api.call.waiting : event_is_set(tasks[t])
    /\ body' = [body EXCEPT !.pc = api.call.from]
    /\ api' = [api EXCEPT !.call.state = "returned"]
    /\ UNCHANGED <<tm, tasks, now>>

NextWaitFor ==
    \/ TaskManager_open /\ forget
    \/ \E d \in CallDeadlines : submit_task(PyNone, d) /\ forget
    \/ \E d \in CallDeadlines : start_task(PyNone, d) /\ forget
    \/ start_task_return /\ forget
    \/ cancel /\ forget
    \/ \E exc \in BOOLEAN : aexit(exc) /\ forget
    \/ body_cancelled /\ forget
    \/ close_return /\ forget
    \/ \E t \in TaskIds : cancel_task(t) /\ forget
    \/ \E listed \in SUBSET TaskIds, fresh \in BOOLEAN : wait_for(listed, fresh)
    \/ wait_for_begin
    \/ wait_for_return
    \/ \E t \in TaskIds : call_begin(t) /\ forget
    \/ \E t \in TaskIds : call_started(t) /\ forget
    \/ \E t \in TaskIds : call_exit(t) /\ forget
    \/ \E t \in TaskIds, step \in Steps : task_begin(t, step) /\ forget
    \/ \E t \in TaskIds, step \in Steps : task_resume(t, step) /\ forget
    \/ \E t \in TaskIds : task_cancelled(t) /\ forget
    \/ \E t \in TaskIds : scope_timeout(t) /\ forget
    \/ tick /\ forget

SpecWaitFor == Init /\ [][NextWaitFor]_vars

\* ------------------------------------------- the functions of deadline.py
\* The arguments and the clock readings the functions are called with: a
\* range around zero.
ArgValues == (0 - 1)..MaxArg
OptionalArgs == {PyNone} \cup {Float(x) : x \in ArgValues}
Clocks == 0..MaxClock

InitDeadline ==
    /\ tm = TaskManager
    /\ tasks = <<>>
    /\ body = [pc |-> "idle", start |-> 0, exc |-> FALSE, raised |-> FALSE,
               cancel_calls |-> FALSE, cancelled |-> FALSE, plain |-> FALSE]
    /\ now \in Clocks
    /\ api = NoCalls

\* the record of a call of a function of deadline.py that returned
Returned(op, args, ret) ==
    [Call(op, 0) EXCEPT !.state = "returned", !.args = args, !.ret = Some(ret)]

\* create_deadline(timeout=, deadline=, clock=) is called, with a clock that
\* reads now
called_create_deadline(timeout, deadline) ==
    /\ api' = [api EXCEPT !.call =
                 Returned("create_deadline", <<timeout, deadline, now>>,
                          create_deadline(timeout, deadline, now))]
    /\ UNCHANGED <<tm, tasks, body, now>>

\* deadline_is_expired(deadline, clock) is called
called_deadline_is_expired(deadline) ==
    /\ api' = [api EXCEPT !.call =
                 Returned("deadline_is_expired", <<deadline, now>>,
                          deadline_is_expired(deadline, now))]
    /\ UNCHANGED <<tm, tasks, body, now>>

\* deadline_to_timeout(deadline, clock) is called
called_deadline_to_timeout(deadline) ==
    /\ api' = [api EXCEPT !.call =
                 Returned("deadline_to_timeout", <<deadline, now>>,
                          deadline_to_timeout(deadline, now))]
    /\ UNCHANGED <<tm, tasks, body, now>>

\* the clock goes on
clock_tick ==
    /\ now < MaxClock
    /\ now' = now + 1
    /\ UNCHANGED <<tm, tasks, body, api>>

NextDeadline ==
    \/ \E to \in OptionalArgs, d \in OptionalArgs : called_create_deadline(to, d)
    \/ \E d \in ArgValues : called_deadline_is_expired(d)
    \/ \E d \in ArgValues : called_deadline_to_timeout(d)
    \/ clock_tick

SpecDeadline == InitDeadline /\ [][NextDeadline]_vars

\* ------------------------------------------------------- catch classes
\* The catch arguments given to the calls of this specification: classes
\* that as_result_async accepts (subclasses of Exception)
CatchArgs == {{"ValueError"}, {"Exception"}}
\* the functions of this specification may also raise a ValueError
StepsCatch == Steps \cup {"ValueError"}

\* the task that submit_task and start_task build when catch is given: the
\* function is wrapped by as_result_async first
NewTaskCatch(catch, timeout, deadline) ==
    [NewTask(timeout, deadline) EXCEPT !.catch = catch]

\* TaskManager.submit_task with catch classes
submit_task_catch(catch, timeout, deadline) ==
    /\ body.pc = "open"
    /\ tm.opened /\ ~tm.closed
    /\ Len(tasks) < MaxTasks
    /\ LET task == NewTaskCatch(catch, timeout, deadline)
       IN  /\ tasks' = Append(tasks, task)
           /\ tm' = IF task.status = TIMEOUT THEN TaskManager_cancel(tm) ELSE tm
    /\ UNCHANGED <<body, now>>

\* TaskManager.start_task with catch classes
start_task_catch(catch, timeout, deadline) ==
    /\ body.pc = "open"
    /\ tm.opened /\ ~tm.closed
    /\ Len(tasks) < MaxTasks
    /\ LET task == NewTaskCatch(catch, timeout, deadline)
       IN  /\ tasks' = Append(tasks, task)
           /\ tm' = IF task.status = TIMEOUT THEN TaskManager_cancel(tm) ELSE tm
           /\ body' = IF task.status = TIMEOUT THEN body
                      ELSE [body EXCEPT !.pc = "start", !.start = Len(tasks) + 1]
    /\ UNCHANGED now

NextCatch ==
    \/ TaskManager_open /\ UNCHANGED api
    \/ \E c \in CatchArgs, d \in CallDeadlines : submit_task_catch(c, PyNone, d) /\ UNCHANGED api
    \/ \E c \in CatchArgs, d \in CallDeadlines : start_task_catch(c, PyNone, d) /\ UNCHANGED api
    \/ start_task_return /\ UNCHANGED api
    \/ cancel /\ UNCHANGED api
    \/ \E exc \in BOOLEAN : aexit(exc) /\ UNCHANGED api
    \/ body_cancelled /\ UNCHANGED api
    \/ close_return /\ UNCHANGED api
    \/ \E t \in TaskIds : cancel_task(t) /\ UNCHANGED api
    \/ \E t \in TaskIds : call_begin(t) /\ UNCHANGED api
    \/ \E t \in TaskIds : call_started(t) /\ UNCHANGED api
    \/ \E t \in TaskIds : call_exit(t) /\ UNCHANGED api
    \/ \E t \in TaskIds, step \in StepsCatch : task_begin(t, step) /\ UNCHANGED api
    \/ \E t \in TaskIds, step \in StepsCatch : task_resume(t, step) /\ UNCHANGED api
    \/ \E t \in TaskIds : task_cancelled(t) /\ UNCHANGED api
    \/ \E t \in TaskIds : scope_timeout(t) /\ UNCHANGED api
    \/ tick /\ UNCHANGED api

SpecCatch == Init /\ [][NextCatch]_vars

\* ------------------------------------- a task run in a plain task group
\* A Task that was built without manager is run by the body in a task group
\* of anyio ("async with anyio.create_task_group() as tg").  The task group
\* is kept in the variable tm, of which it has the cancel scope
\* (cancel_called) and the error of a child (child_error); the body enters
\* and leaves it as it enters and leaves the task group of a manager.
group_open ==
    /\ body.pc = "idle"
    /\ tm' = [tm EXCEPT !.opened = TRUE]
    /\ body' = [body EXCEPT !.pc = "open", !.plain = TRUE]
    /\ UNCHANGED <<tasks, now>>

\* the deadlines given to Task(func, deadline=...): none, or an instant
PlainDeadlines == {NOTHING, Some(1), Some(MaxTime)}

\* Task(func, deadline=deadline), handed to the scheduler
PlainTask(deadline) ==
    [Task(Payload(Len(tasks) + 1), deadline) EXCEPT !.host = "scheduled"]

\* tg.start_soon(task)
group_start_soon(deadline) ==
    /\ body.pc = "open" /\ body.plain
    /\ Len(tasks) < MaxTasks
    /\ tasks' = Append(tasks, PlainTask(deadline))
    /\ UNCHANGED <<tm, body, now>>

\* await tg.start(task): the body waits until the task has called
\* task_status.started()
group_start(deadline) ==
    /\ body.pc = "open" /\ body.plain
    /\ Len(tasks) < MaxTasks
    /\ tasks' = Append(tasks, PlainTask(deadline))
    /\ body' = [body EXCEPT !.pc = "start", !.start = Len(tasks) + 1]
    /\ UNCHANGED <<tm, now>>

NextPlain ==
    \/ TaskManager_open /\ UNCHANGED api
    \/ group_open /\ UNCHANGED api
    \/ \E d \in CallDeadlines : ~body.plain /\ submit_task(PyNone, d) /\ UNCHANGED api
    \/ \E d \in CallDeadlines : ~body.plain /\ start_task(PyNone, d) /\ UNCHANGED api
    \/ \E d \in PlainDeadlines : group_start_soon(d) /\ UNCHANGED api
    \/ \E d \in PlainDeadlines : group_start(d) /\ UNCHANGED api
    \/ start_task_return /\ UNCHANGED api
    \/ cancel /\ UNCHANGED api
    \/ \E exc \in BOOLEAN : aexit(exc) /\ UNCHANGED api
    \/ body_cancelled /\ UNCHANGED api
    \/ close_return /\ UNCHANGED api
    \/ \E t \in TaskIds : cancel_task(t) /\ UNCHANGED api
    \/ \E t \in TaskIds : call_begin(t) /\ UNCHANGED api
    \/ \E t \in TaskIds : call_started(t) /\ UNCHANGED api
    \/ \E t \in TaskIds : call_exit(t) /\ UNCHANGED api
    \/ \E t \in TaskIds, step \in Steps : task_begin(t, step) /\ UNCHANGED api
    \/ \E t \in TaskIds, step \in Steps : task_resume(t, step) /\ UNCHANGED api
    \/ \E t \in TaskIds : task_cancelled(t) /\ UNCHANGED api
    \/ \E t \in TaskIds : scope_timeout(t) /\ UNCHANGED api
    \/ tick /\ UNCHANGED api

SpecPlain == Init /\ [][NextPlain]_vars

\* ------------------------------------------------------------ Task.kill
\* The calls of kill() with the steps of the scheduler.  The scheduler runs
\* every coroutine that is ready to run: each of its steps is taken if it
\* stays enabled (weak fairness).  The body and the clock are free to stop.
NextKill ==
    \/ TaskManager_open /\ forget
    \/ \E d \in CallDeadlines : submit_task(PyNone, d) /\ forget
    \/ \E d \in CallDeadlines : called_start_task(PyNone, d)
    \/ called_start_task_return
    \/ \E exc \in BOOLEAN : aexit(exc) /\ forget
    \/ body_cancelled /\ forget
    \/ close_return /\ forget
    \/ \E t \in TaskIds : called_cancel_task(t)
    \/ \E t \in TaskIds : Task_kill(t)
    \/ Task_wait_return
    \/ \E t \in TaskIds : call_begin(t) /\ forget
    \/ \E t \in TaskIds : entered_pending(t)
    \/ \E t \in TaskIds : call_exit(t) /\ forget
    \/ \E t \in TaskIds, step \in Steps : task_begin(t, step) /\ forget
    \/ \E t \in TaskIds, step \in Steps : task_resume(t, step) /\ forget
    \/ \E t \in TaskIds : task_cancelled(t) /\ forget
    \/ \E t \in TaskIds : scope_timeout(t) /\ forget
    \/ tick /\ forget

\* a variant of Scheduler that never delivers a cancellation
Scheduler_nocancel(t) ==
    /\ t \in TaskIds
    /\ \/ call_begin(t) /\ forget
       \/ entered_pending(t)
       \/ \E step \in Steps : task_begin(t, step) /\ forget

\* the steps that the scheduler owes to the coroutines of task t: the first
\* run of __call__ and of __task__, the wake-up of __call__ after
\* task_status.started(), and the delivery of a cancellation to a function
\* suspended in a cancelled scope
Scheduler(t) ==
    /\ t \in TaskIds
    /\ \/ call_begin(t) /\ forget
       \/ entered_pending(t)
       \/ \E step \in Steps : task_begin(t, step) /\ forget
       \/ task_cancelled(t) /\ forget

SpecKill ==
    /\ Init /\ [][NextKill]_vars
    /\ \A t \in 1..MaxTasks : WF_vars(Scheduler(t))
    /\ WF_vars(Task_wait_return)

\* ---------------------------------------------------- TaskManager.kill
\* the record of a call of TaskManager.kill made by the body
CalledKill(m, from) ==
    IF TaskManager_wait_outcome(m) = "return"
    THEN [Call("TaskManager.kill", 0) EXCEPT !.state = "returned", !.from = from]
    ELSE [Call("TaskManager.kill", 0) EXCEPT !.suspended = TRUE, !.from = from]

\* TaskManager.kill called by the body inside the managed scope: cancel(),
\* then wait(), which suspends, shielded, until the shutdown event is set
TaskManager_kill_inside ==
    /\ body.pc = "open"
    /\ tm' = TaskManager_cancel(tm)
    /\ body' = [body EXCEPT
                  !.pc = IF TaskManager_wait_outcome(tm') = "suspend"
                         THEN "kill" ELSE @,
                  !.cancel_calls = TRUE]
    /\ api' = [Forgotten(api) EXCEPT !.call = CalledKill(tm', body.pc)]
    /\ UNCHANGED <<tasks, now>>

\* TaskManager.wait after its suspension, in the body or in another
\* coroutine: the shutdown event is set
TaskManager_wait_resume(who) ==
    /\ tm.shutdown_set
    /\ IF who = "body"
       THEN /\ body.pc = "kill"
            /\ body' = [body EXCEPT !.pc = api.call.from]
            /\ api' = [api EXCEPT !.call.state = "returned"]
            /\ UNCHANGED <<tm, tasks, now>>
       ELSE TaskManager_wait_return

NextManagerKill ==
    \/ TaskManager_open /\ forget
    \/ \E d \in CallDeadlines : submit_task(PyNone, d) /\ forget
    \/ \E d \in CallDeadlines : called_start_task(PyNone, d)
    \/ called_start_task_return
    \/ TaskManager_kill
    \/ TaskManager_kill_inside
    \/ \E who \in {"body", "other"} : TaskManager_wait_resume(who)
    \/ \E exc \in BOOLEAN : aexit(exc) /\ forget
    \/ body_cancelled /\ forget
    \/ close_return /\ forget
    \/ \E t \in TaskIds : call_begin(t) /\ forget
    \/ \E t \in TaskIds : entered_pending(t)
    \/ \E t \in TaskIds : call_exit(t) /\ forget
    \/ \E t \in TaskIds, step \in Steps : task_begin(t, step) /\ forget
    \/ \E t \in TaskIds, step \in Steps : task_resume(t, step) /\ forget
    \/ \E t \in TaskIds : task_cancelled(t) /\ forget
    \/ \E t \in TaskIds : scope_timeout(t) /\ forget
    \/ tick /\ forget

\* a variant of BodyLeaves in which a cancelled body stays where it is
BodyLeaves_shielded ==
    \/ called_start_task_return
    \/ close_return /\ forget

\* the steps that the scheduler owes to the body: the return of start_task
\* once the task has started, the delivery of a cancellation of the
\* manager's scope to a body that is inside the scope and not in a shielded
\* wait, and the end of close() once every child has finished
BodyLeaves ==
    \/ called_start_task_return
    \/ body_cancelled /\ forget
    \/ close_return /\ forget

\* The scheduler runs every coroutine that is ready to run, a cancelled
\* body included; the calls of the body and the clock are free to stop.
SpecManagerKill ==
    /\ Init /\ [][NextManagerKill]_vars
    /\ \A t \in 1..MaxTasks : WF_vars(Scheduler(t))
    /\ \A t \in 1..MaxTasks : WF_vars(t \in TaskIds /\ call_exit(t) /\ forget)
    /\ WF_vars(BodyLeaves)
    /\ \A who \in {"body", "other"} : WF_vars(TaskManager_wait_resume(who))

\* --------------------------------------------------------------- claims

\* C1: once the scope has been left and close() is over, on a normal exit
\* and on an exit with an error, every task of the manager has a terminal
\* status.
C1_NoTaskOutlivesScope ==
    body.pc = "closed" => \A t \in TaskIds : tasks[t].status \in Terminal

\* C1 witness: the scope was left with an error while a task was running, the
\* task was cancelled, and close() is over.
C1_Witness ==
    /\ body.pc = "closed"
    /\ body.exc
    /\ \E t \in TaskIds : tasks[t].host = "done" /\ tasks[t].status = CANCELLED

\* C2: a task with a terminal status other than SUCCESS has a cancelled
\* manager, whichever way it reached that status.
C2_FailFast ==
    \A t \in TaskIds : tasks[t].status \in NonSuccess => tm.cancel_called

\* C3: once a child has a terminal status other than SUCCESS, a sibling that
\* was created before it and is not terminal yet ends in CANCELLED or
\* TIMEOUT; stated for the sibling whose function is suspended at that
\* moment, which is the sibling that can observe a cancellation.
C3_SiblingsCancelled ==
    [][\A a, b \in TaskIds :
          (/\ b < a
           /\ tasks[a].status \in NonSuccess
           /\ tasks[b].status \notin Terminal
           /\ tasks[b].child = "susp"
           /\ tasks'[b].status \in Terminal)
          => tasks'[b].status \in {CANCELLED, TIMEOUT}]_vars

\* C4: a terminal task keeps its status, its result and its exception in
\* every later step.
C4_TerminalIsFinal ==
    [][\A t \in TaskIds :
          tasks[t].status \in Terminal
          => /\ tasks'[t].status = tasks[t].status
             /\ tasks'[t].result = tasks[t].result
             /\ tasks'[t].exception = tasks[t].exception]_vars

\* The transitions of the state diagram of a task.
Transitions ==
    {<<CREATED, STARTING>>, <<STARTING, PENDING>>, <<CREATED, CANCELLED>>,
     <<CREATED, TIMEOUT>>, <<STARTING, EXCEPTION>>}
        \cup {<<PENDING, s>> : s \in Terminal}

\* C5: every change of the status of a task is a transition of the diagram.
C5_Transitions ==
    [][\A t \in TaskIds :
          tasks'[t].status # tasks[t].status
          => <<tasks[t].status, tasks'[t].status>> \in Transitions]_vars

\* C6: when every function returned Ok, no deadline elapsed and nobody
\* called cancel, then after the scope every task is SUCCESS with the payload
\* of its own function, none is cancelled and the manager was not cancelled.
C6_AllSucceed ==
    (/\ body.pc = "closed"
     /\ ~body.exc
     /\ ~body.cancel_calls
     /\ \A t \in TaskIds :
          /\ Task_err(tasks[t]) = NOTHING
          /\ tasks[t].exception = NOTHING
          /\ IsSome(tasks[t].deadline) => now < Unwrap(tasks[t].deadline))
    => /\ ~tm.cancel_called
       /\ \A t \in TaskIds :
            /\ tasks[t].status = SUCCESS
            /\ Task_ok(tasks[t]) = Some(Payload(t))
            /\ ~Task_cancelled(tasks[t])

\* C6 witness: two tasks, one of them with a deadline, both succeeded with
\* their own payloads.
C6_Witness ==
    /\ body.pc = "closed" /\ ~body.exc /\ ~body.cancel_calls
    /\ Len(tasks) = 2
    /\ \A t \in TaskIds : Task_ok(tasks[t]) = Some(Payload(t))
    /\ \E t \in TaskIds : IsSome(tasks[t].deadline) /\ now < Unwrap(tasks[t].deadline)

\* C7: a call of submit_task or start_task with a deadline that is already
\* expired returns a TIMEOUT task that is never scheduled and has no result
\* and no exception, and cancels the manager.
C7_ExpiredAtCall ==
    \A t \in TaskIds :
        tasks[t].expired_at_call
        => /\ tasks[t].status = TIMEOUT
           /\ tasks[t].host = "none" /\ tasks[t].child = "none"
           /\ tasks[t].result = NOTHING /\ tasks[t].exception = NOTHING
           /\ tm.cancel_called

C9_ResultMatchesStatus ==
    \A t \in TaskIds :
        /\ Task_ok(tasks[t]) # NOTHING => tasks[t].status = SUCCESS
        /\ Task_err(tasks[t]) # NOTHING => tasks[t].status = FAILURE
        /\ tasks[t].status \notin {SUCCESS, FAILURE}
           => /\ tasks[t].result = NOTHING
              /\ Task_ok(tasks[t]) = NOTHING
              /\ Task_err(tasks[t]) = NOTHING

\* C10: an exception is stored only with EXCEPTION, and a task in EXCEPTION
\* has no result.
C10_ExceptionMatchesStatus ==
    \A t \in TaskIds :
        /\ IsSome(tasks[t].exception) => tasks[t].status = EXCEPTION
        /\ tasks[t].status = EXCEPTION => tasks[t].result = NOTHING

\* C10 witness: a function raised, and the task is EXCEPTION with the error.
C10_Witness ==
    \E t \in TaskIds :
        tasks[t].status = EXCEPTION /\ tasks[t].exception = Some("Exception")

\* C11: Task.cancel() on a task that is terminal returns that status and
\* changes nothing: the task (its status, result, exception and completion
\* signal) and the cancelled flag of the manager stay as they were.
C11_CancelTerminal ==
    [][\A t \in TaskIds :
          (called_cancel_task(t) /\ tasks[t].status \in Terminal)
          => /\ api'.call.ret = Some(tasks[t].status)
             /\ tasks'[t] = tasks[t]
             /\ tm' = tm]_vars

\* C11 witness: cancel() was called on a task that had ended in FAILURE, and
\* returned FAILURE.
C11_Witness ==
    /\ api.call.op = "cancel"
    /\ api.call.ret = Some(FAILURE)
    /\ tasks[api.call.task].status = FAILURE

\* the deadline of task t has elapsed
Elapsed(t) == IsSome(tasks[t].deadline) /\ now >= Unwrap(tasks[t].deadline)

\* C12: each cancel() on a PENDING task whose deadline has not elapsed
\* returns "pending" (NOTHING) and leaves the status PENDING; the task then
\* ends in CANCELLED and in no other status, stays CANCELLED, and every
\* wait() and join() on it returns CANCELLED.
C12_CancelPending ==
    /\ [][\A t \in TaskIds :
            /\ (called_cancel_task(t) /\ tasks[t].status = PENDING /\ ~Elapsed(t))
               => /\ api'.call.ret = NOTHING
                  /\ tasks'[t].status = PENDING
            /\ (api.ncancel[t] > 0 /\ tasks[t].status = CANCELLED)
               => tasks'[t].status = CANCELLED]_vars
    /\ [](\A t \in TaskIds :
            (api.ncancel[t] > 0 /\ ~Elapsed(t))
            => /\ tasks[t].status \in {PENDING, CANCELLED}
               /\ (/\ api.call.task = t
                   /\ api.call.op \in {"wait", "join"}
                   /\ api.call.state = "returned")
                  => api.call.ret = Some(CANCELLED))

\* C12 witness: cancel() was called twice on a PENDING task that has a
\* deadline ahead, and a wait() that suspended on it has returned CANCELLED.
C12_Witness ==
    \E t \in TaskIds :
        /\ api.ncancel[t] >= 2
        /\ IsSome(tasks[t].deadline) /\ ~Elapsed(t)
        /\ api.call.op = "wait" /\ api.call.task = t
        /\ api.call.state = "returned" /\ api.call.suspended
        /\ api.call.ret = Some(CANCELLED)

\* C13: a task that cancel() moved from CREATED to CANCELLED, before its
\* coroutine ran, is never started afterwards: it stays CANCELLED, and its
\* coroutine and its function never run.
C13_CancelledNeverStarted ==
    [][\A t \in TaskIds :
          (tasks[t].status = CANCELLED /\ tasks[t].shutdown_event = NOTHING)
          => /\ tasks'[t].status = CANCELLED
             /\ tasks'[t].shutdown_event = NOTHING
             /\ tasks'[t].child = "none"]_vars

\* C14: whenever wait() returns on a task of the manager, the returned
\* status is terminal and is the status the task has at that moment; and
\* wait() on a task that is terminal returns in the same step, without
\* suspending.
C14_WaitReturnsTerminal ==
    /\ [](\A t \in TaskIds :
            (api.call.op = "wait" /\ api.call.task = t /\ api.call.state = "returned")
            => /\ api.call.ret = Some(tasks[t].status)
               /\ tasks[t].status \in Terminal)
    /\ [][\A t \in TaskIds :
            (Task_wait(t) /\ tasks[t].status \in Terminal)
            => /\ api'.call.state = "returned"
               /\ ~api'.call.suspended
               /\ api'.call.ret = Some(tasks[t].status)]_vars

\* C14 witness: a wait() that suspended on a running task has returned
\* SUCCESS.
C14_Witness ==
    /\ api.call.op = "wait" /\ api.call.task \in TaskIds
    /\ api.call.state = "returned" /\ api.call.suspended
    /\ api.call.ret = Some(SUCCESS)

\* C15: a Task that was constructed and never submitted is CREATED, not
\* done, not cancelled, with no result, ok, err or exception; wait(), kill()
\* and join() on it raise "not started" and leave the Task as it was.
C15_FreshTask ==
    /\ Fresh.status = CREATED
    /\ Fresh.status \notin Terminal
    /\ ~Task_cancelled(Fresh)
    /\ Fresh.result = NOTHING /\ Task_ok(Fresh) = NOTHING /\ Task_err(Fresh) = NOTHING
    /\ Fresh.exception = NOTHING
    /\ (api.call.op \in CallOps /\ api.call.task = 0)
       => /\ api.call.state = "raised"
          /\ api.call.error = "not started"
          /\ api.call.fresh = Some(Fresh)

\* C15 witness: kill() was called on a Task that was never submitted, and
\* raised.
C15_Witness ==
    /\ api.call.op = "kill" /\ api.call.task = 0
    /\ api.call.state = "raised"

\* C16: wait() and kill() on a task that submit_task or start_task returned
\* never raise "not started", wherever the task is in its scheduling.
C16_SubmittedNeverNotStarted ==
    (api.call.op \in {"wait", "kill"} /\ api.call.task \in TaskIds)
    => api.call.error # "not started"

\* C17: when start_task returns a task, the status of that task is neither
\* CREATED nor STARTING.
C17_StartTaskReturn ==
    (api.call.op = "start_task" /\ api.call.state = "returned")
    => /\ api.call.task \in TaskIds
       /\ tasks[api.call.task].status \notin {CREATED, STARTING}
       /\ api.call.ret = Some(tasks[api.call.task].status)

\* C17 witness: start_task waited for the task and returned it, PENDING.
C17_Witness ==
    /\ api.call.op = "start_task" /\ api.call.state = "returned"
    /\ api.call.suspended
    /\ tasks[api.call.task].status = PENDING

\* start_task has returned a task that it had given to the scheduler (its
\* deadline was not expired at submission)
StartTaskReturned ==
    /\ api.call.op = "start_task" /\ api.call.state = "returned"
    /\ api.call.task \in TaskIds
    /\ tasks[api.call.task].host # "none"

C19_ClosedManagerRefuses ==
    (api.call.op \in SubmitOps /\ api.call.from = "closed")
    => /\ api.call.state = "raised"
       /\ api.call.task = 0

\* C20: submit_task and start_task on a manager that was never opened raise
\* "not started", create no task and leave the manager as it was.
C20_NeverOpenedRefuses ==
    [][\A op \in SubmitOps, d \in CallDeadlines :
          (submit_not_open(op, PyNone, d) /\ ~tm.opened)
          => /\ api'.call.state = "raised"
             /\ api'.call.error = "not started"
             /\ tasks' = tasks
             /\ tm' = tm]_vars

\* C20 witness: start_task was called on a manager that was never opened,
\* and raised "not started".
C20_Witness ==
    /\ api.call.op = "start_task" /\ api.call.from = "idle"
    /\ api.call.error = "not started"
    /\ ~tm.opened /\ tasks = <<>>

\* C21: closed() is false while the manager is open, and true once the
\* manager has been exited (close() is over), whether the scope was left
\* normally or with an error.
C21_ClosedAfterExit ==
    /\ body.pc = "open" => ~TaskManager_closed(tm)
    /\ body.pc = "closed" => TaskManager_closed(tm)

\* C22: open() called on a manager that has already been opened fails, and
\* leaves the manager (its task group, its cancelled flag) and the tasks
\* running in it as they were.
C22_OpenTwiceFails ==
    [][open_again
       => /\ api'.call.state = "raised"
          /\ tm' = tm
          /\ tasks' = tasks]_vars

\* the second open() is followed by a scope exit that returns while a task
\* given to the first task group is still running
C22_Orphan ==
    /\ body.pc = "closed"
    /\ \E t \in TaskIds : tasks[t].status \notin Terminal

\* the second open() clears the cancelled flag of a cancelled manager
C22_FlagCleared ==
    /\ api.call.op = "open"
    /\ OuterCancelled(tm)
    /\ ~TaskManager_cancelled(tm)

\* C23: TaskManager.cancel() is idempotent.  On a manager that was never
\* opened it changes nothing and cancelled() stays false; on an opened
\* manager it makes cancelled() true; on a manager that is already
\* cancelled, by the body, by another caller or by a child that ended
\* without SUCCESS, it changes nothing; it never touches a task; and
\* cancelled() never goes back to false.
C23_CancelIdempotent ==
    /\ [][(called_cancel \/ cancel_outside \/ TaskManager_kill)
          => /\ tasks' = tasks
             /\ ~tm.opened => (tm' = tm /\ ~TaskManager_cancelled(tm'))
             /\ tm.opened => TaskManager_cancelled(tm')
             /\ TaskManager_cancelled(tm) => tm' = tm]_vars
    /\ [][TaskManager_cancelled(tm) => TaskManager_cancelled(tm')]_vars
    /\ [](TaskManager_cancel(TaskManager_cancel(tm)) = TaskManager_cancel(tm))
    /\ [](~tm.opened => ~tm.cancel_called)

\* C23 witness: the body called cancel() inside the scope on a manager that
\* a child ending in FAILURE had cancelled before.
C23_Witness ==
    /\ api.call.op = "TaskManager.cancel" /\ api.call.from = "open"
    /\ TaskManager_cancelled(tm)
    /\ \E t \in TaskIds : tasks[t].status = FAILURE

\* C24: the shutdown event of the manager is set once, by the step that ends
\* close(), and at that moment every task of the manager is terminal and its
\* coroutine has finished; wait() on an opened manager has returned only
\* when every task is terminal, and wait() on a manager that was never
\* opened returns at once.
C24_ShutdownAfterChildren ==
    /\ [][tm'.shutdown_set # tm.shutdown_set
          => /\ ~tm.shutdown_set
             /\ body.pc = "closing" /\ body'.pc = "closed"
             /\ \A t \in TaskIds :
                  /\ tasks'[t].status \in Terminal
                  /\ tasks'[t].host \in {"none", "done"}]_vars
    /\ []((api.watch \in {"returned", "returned at once"} /\ tm.opened)
          => /\ tm.shutdown_set
             /\ \A t \in TaskIds : tasks[t].status \in Terminal)
    /\ [][(TaskManager_wait /\ ~tm.opened)
          => api'.watch = "returned at once"]_vars

\* C24 witness: a wait() that suspended on the open manager has returned,
\* after two tasks ended, one of them CANCELLED.
C24_Witness ==
    /\ api.watch = "returned"
    /\ Len(tasks) = 2
    /\ \E t \in TaskIds : tasks[t].status = CANCELLED /\ tasks[t].host = "done"

\* the scope is being left, or has been left, with an error
ErrorExit == body.exc /\ body.pc \in {"closing", "closed"}

\* C25 as stated: when an error escapes the scope, the manager is cancelled
\* before it is closed, every child that is not terminal at that moment
\* ends in CANCELLED or TIMEOUT, and the exit returns only when every child
\* is terminal.
C25_ErrorExitCancelsAll ==
    /\ [][\A t \in TaskIds :
            (/\ ErrorExit
             /\ tasks[t].status \notin Terminal
             /\ tasks'[t].status \in Terminal)
            => tasks'[t].status \in {CANCELLED, TIMEOUT}]_vars
    /\ [](ErrorExit => TaskManager_cancelled(tm))
    /\ []((ErrorExit /\ body.pc = "closed")
          => \A t \in TaskIds : tasks[t].status \in Terminal)

\* C25 amended: when an error escapes the scope, the manager is cancelled
\* before it is closed, every child whose function is suspended at that
\* moment or suspends later ends in CANCELLED or TIMEOUT, and the exit
\* returns only when every child is terminal.
C25_ErrorExitCancelsSuspended ==
    /\ [][\A t \in TaskIds :
            (/\ ErrorExit
             /\ tasks[t].child = "susp"
             /\ tasks'[t].status \in Terminal)
            => tasks'[t].status \in {CANCELLED, TIMEOUT}]_vars
    /\ [](ErrorExit => TaskManager_cancelled(tm))
    /\ []((ErrorExit /\ body.pc = "closed")
          => \A t \in TaskIds : tasks[t].status \in Terminal)

\* C25 witness: the scope was left with an error while two tasks were
\* running; one had suspended and ended CANCELLED, the other one had not run
\* yet and ended in SUCCESS.
C25_Witness ==
    /\ ErrorExit /\ body.pc = "closed"
    /\ ~body.cancel_calls
    /\ Len(tasks) = 2
    /\ tasks[1].status = CANCELLED /\ tasks[1].left < MaxSusp
    /\ tasks[2].status = SUCCESS

\* C26: the exit of the scope raises an error only when a function raised
\* an error that is not an Exception; when the body made no cancel call,
\* tasks that end in FAILURE, TIMEOUT, CANCELLED or in EXCEPTION with an
\* Exception make the exit raise nothing: no error of the task group and no
\* cancellation error leaves the scope.
C26_ExitRaisesNothing ==
    /\ (body.pc = "closed" /\ ~body.cancel_calls /\ (body.raised \/ body.cancelled))
       => \E t \in TaskIds : tasks[t].exception = Some("BaseException")
    /\ tm.child_error
       => \E t \in TaskIds : tasks[t].exception = Some("BaseException")

\* a body that is not suspended inside the scope when the manager is
\* cancelled leaves the scope without an error although one task ended in
\* EXCEPTION with an Exception and the other one in FAILURE
C26_QuietExit ==
    /\ body.pc = "closed" /\ ~body.raised /\ ~body.exc
    /\ \E t \in TaskIds :
         tasks[t].status = EXCEPTION /\ tasks[t].exception = Some("Exception")
    /\ \E t \in TaskIds : tasks[t].status = FAILURE

\* the scope has been left without an error although a task was cancelled
\* with Task.cancel() and another one ran into its deadline
C26_CancelledAndTimeout ==
    /\ body.pc = "closed" /\ ~body.raised /\ ~body.exc
    /\ \E t \in TaskIds : tasks[t].status = CANCELLED /\ tasks[t].task_group = Some(TRUE)
    /\ \E t \in TaskIds : tasks[t].status = TIMEOUT /\ tasks[t].scope = "timeout"

\* the first join() on a task that api.start_task returned (or the exit of
\* the scope of that task) has returned
EphemeralJoined(t) ==
    /\ IsSome(tasks[t].ephemeral_task_manager)
    /\ api.call.op = "join" /\ api.call.task = t
    /\ api.call.state = "returned" /\ api.call.suspended

\* C27: when the first join() on a task that api.start_task returned, or
\* the exit of its scope, returns, the private manager has been closed (its
\* shutdown event is set and the coroutine of the task is over), the task is
\* terminal and join() returned its status, and the status is the one its
\* run produced: SUCCESS when an Ok is stored, FAILURE when an Err is
\* stored, CANCELLED when cancel() was called on the PENDING task inside the
\* scope before its deadline.
C27_EphemeralJoin ==
    \A t \in TaskIds :
        EphemeralJoined(t)
        => /\ tm.shutdown_set
           /\ tasks[t].host \in {"none", "done"}
           /\ tasks[t].status \in Terminal
           /\ api.call.ret = Some(tasks[t].status)
           /\ Task_ok(tasks[t]) # NOTHING => tasks[t].status = SUCCESS
           /\ Task_err(tasks[t]) # NOTHING => tasks[t].status = FAILURE
           /\ (api.ncancel[t] > 0 /\ ~Elapsed(t)) => tasks[t].status = CANCELLED

\* the part of C27 that is about the order: the private manager is closed
\* first, and join() returns the terminal status of the task
C27_ClosedThenWaited ==
    \A t \in TaskIds :
        EphemeralJoined(t)
        => /\ tm.shutdown_set
           /\ tasks[t].host \in {"none", "done"}
           /\ tasks[t].status \in Terminal
           /\ api.call.ret = Some(tasks[t].status)
           /\ Task_ok(tasks[t]) # NOTHING => tasks[t].status = SUCCESS
           /\ (Task_err(tasks[t]) # NOTHING /\ tasks[t].deadline = NOTHING)
              => tasks[t].status = FAILURE
           /\ (api.ncancel[t] > 0 /\ ~Elapsed(t)) => tasks[t].status = CANCELLED

\* the scope of a task that api.start_task returned was left after cancel()
\* was called inside it on the PENDING task, and the task is CANCELLED
C27_CancelledInScope ==
    \E t \in TaskIds :
        /\ EphemeralJoined(t)
        /\ api.ncancel[t] > 0
        /\ tasks[t].status = CANCELLED
        /\ api.call.ret = Some(CANCELLED)

\* C28: join() on a task that is terminal returns that status at once and
\* changes neither the task nor the manager, at every call; this holds for
\* a task of a manager and for a task that api.start_task returned whose
\* private manager an earlier join() has closed.  The first join() on such
\* a task, made when the task is terminal already, does not change the task
\* either.
C28_JoinTerminal ==
    [][\A t \in TaskIds :
          tasks[t].status \in Terminal
          => /\ (Task_join(t) \/ join_closed(t, FALSE))
                => /\ api'.call.state = "returned"
                   /\ ~api'.call.suspended
                   /\ api'.call.ret = Some(tasks[t].status)
                   /\ tasks' = tasks
                   /\ tm' = tm
             /\ join_ephemeral(t, FALSE) => (tasks' = tasks /\ tm' = tm)
             /\ (join_close_return /\ api.call.task = t /\ ~tm.child_error)
                => /\ api'.call.ret = Some(tasks[t].status)
                   /\ tasks' = tasks]_vars

\* C28 witness: join() was called again on a task that api.start_task
\* returned, after an earlier join() had closed its private manager, and
\* returned FAILURE.
C28_Witness ==
    /\ api.call.op = "join" /\ api.call.from = "task_closed"
    /\ api.call.state = "returned" /\ ~api.call.suspended
    /\ api.call.task \in TaskIds
    /\ IsSome(tasks[api.call.task].ephemeral_task_manager)
    /\ tm.shutdown_set
    /\ api.call.ret = Some(FAILURE)

\* join() on a task of a manager that is terminal, called inside the scope,
\* returned SUCCESS
C28_JoinedInScope ==
    /\ api.call.op = "join" /\ api.call.from = "open"
    /\ api.call.state = "returned" /\ ~api.call.suspended
    /\ api.call.ret = Some(SUCCESS)

C30_WaitForAllTerminal ==
    (api.call.op = "wait_for" /\ api.call.state = "returned")
    => /\ \A t \in api.call.listed : tasks[t].status \in Terminal
       /\ IsSome(api.call.fresh) => Unwrap(api.call.fresh).status \in Terminal

\* the part of C30 that is about tasks that were submitted to a manager:
\* when wait_for returns, each of them is terminal
C30_SubmittedAllTerminal ==
    (api.call.op = "wait_for" /\ api.call.state = "returned")
    => \A t \in api.call.listed : tasks[t].status \in Terminal

\* wait_for waited for two tasks and has returned after one of them ended
\* in FAILURE and the other one, later, in CANCELLED
C30_WaitedForBoth ==
    /\ api.call.op = "wait_for" /\ api.call.state = "returned"
    /\ api.call.listed = {1, 2} /\ api.call.waiting = {1, 2}
    /\ tasks[2].status = FAILURE
    /\ tasks[1].status = CANCELLED

\* C31: for all timeout, deadline and clock values of a range that includes
\* zero, create_deadline returns min(clock + timeout, deadline) when both
\* are given, clock + timeout when only timeout is given, deadline when
\* only deadline is given, and nothing when neither is given.
C31_CreateDeadline ==
    api.call.op = "create_deadline" =>
        LET timeout == api.call.args[1]
            deadline == api.call.args[2]
            clock == api.call.args[3]
        IN  Unwrap(api.call.ret) =
              IF timeout # PyNone /\ deadline # PyNone
              THEN Some(Min(clock + timeout[1], deadline[1]))
              ELSE IF timeout # PyNone THEN Some(clock + timeout[1])
              ELSE IF deadline # PyNone THEN Some(deadline[1])
              ELSE NOTHING

\* the part of C31 that holds: the same, for arguments that are not zero
C31_CreateDeadlineNonZero ==
    (/\ api.call.op = "create_deadline"
     /\ api.call.args[1] # Float(0)
     /\ api.call.args[2] # Float(0)) =>
        LET timeout == api.call.args[1]
            deadline == api.call.args[2]
            clock == api.call.args[3]
        IN  Unwrap(api.call.ret) =
              IF timeout # PyNone /\ deadline # PyNone
              THEN Some(Min(clock + timeout[1], deadline[1]))
              ELSE IF timeout # PyNone THEN Some(clock + timeout[1])
              ELSE IF deadline # PyNone THEN Some(deadline[1])
              ELSE NOTHING

C33_TieBreak ==
    [][\A t \in TaskIds :
          (/\ tasks[t].child = "susp"
           /\ cancel_pending(tasks[t])
           /\ tasks'[t].child # "susp")
          => /\ tasks[t].status = PENDING
             /\ tasks'[t].child = "done"
             /\ tasks'[t].status =
                  IF /\ IsSome(tasks[t].deadline)
                     /\ now >= Unwrap(tasks[t].deadline)
                  THEN TIMEOUT ELSE CANCELLED]_vars

\* C33 witness: a task that has a deadline was cancelled before it and has
\* ended in CANCELLED, and a sibling observed the cancellation of the
\* manager after its own deadline, which had not fired yet, and has ended in
\* TIMEOUT.
C33_Witness ==
    \E t, u \in TaskIds :
        /\ tasks[t].status = CANCELLED /\ IsSome(tasks[t].deadline)
        /\ tasks[t].child = "done" /\ tasks[t].left < MaxSusp
        /\ tasks[t].task_group = Some(TRUE)
        /\ Unwrap(tasks[t].deadline) > now
        /\ tasks[u].status = TIMEOUT /\ tasks[u].scope = "open"
        /\ tasks[u].child = "done" /\ tasks[u].left < MaxSusp

\* the function of task t ends with `step` in this step
FuncEnds(t, step) ==
    /\ step # "suspend"
    /\ task_begin(t, step) \/ task_resume(t, step)

\* C34: for a task that was given catch classes, a function that raises an
\* error that is an instance of one of them ends the task in FAILURE with
\* err() holding the error, a function that returns ends it in SUCCESS with
\* ok() holding the value returned, and a function that raises another
\* Exception ends it in EXCEPTION with exception() holding the error.
C34_Catch ==
    [][\A t \in TaskIds, step \in StepsCatch \ {"suspend"} :
          (FuncEnds(t, step) /\ tasks[t].catch # {}) =>
             LET end == func_end(step, tasks[t].func)
                 task == tasks'[t]
             IN  /\ (end[1] = "raise" /\ IsInstance(end[2], tasks[t].catch))
                      => /\ task.status = FAILURE
                         /\ Task_err(task) = Some(end[2])
                 /\ end[1] = "return"
                      => /\ task.status = SUCCESS
                         /\ Task_ok(task) = Some(end[2])
                 /\ (/\ end[1] = "raise"
                     /\ end[2] \in Recoverable
                     /\ ~IsInstance(end[2], tasks[t].catch))
                      => /\ task.status = EXCEPTION
                         /\ task.exception = Some(end[2])]_vars

\* the part of C34 that holds: the same, except that a task whose deadline
\* had passed when __task__ entered its scope ends in TIMEOUT, with err()
\* holding the error, when its function raises a matching error
C34_CatchUnlessExpired ==
    [][\A t \in TaskIds, step \in StepsCatch \ {"suspend"} :
          (FuncEnds(t, step) /\ tasks[t].catch # {}) =>
             LET end == func_end(step, tasks[t].func)
                 task == tasks'[t]
             IN  /\ (end[1] = "raise" /\ IsInstance(end[2], tasks[t].catch))
                      => /\ task.status =
                              IF cancel_called(task.scope) THEN TIMEOUT ELSE FAILURE
                         /\ Task_err(task) = Some(end[2])
                 /\ end[1] = "return"
                      => /\ task.status = SUCCESS
                         /\ Task_ok(task) = Some(end[2])
                 /\ (/\ end[1] = "raise"
                     /\ end[2] \in Recoverable
                     /\ ~IsInstance(end[2], tasks[t].catch))
                      => /\ task.status = EXCEPTION
                         /\ task.exception = Some(end[2])]_vars

\* tasks with catch classes have ended in each of the three ways: FAILURE
\* with the ValueError that was caught, EXCEPTION with an Exception that
\* was not
C34_CaughtAndNot ==
    \E t, u \in TaskIds :
        /\ tasks[t].catch = {"ValueError"} /\ tasks[u].catch = {"ValueError"}
        /\ tasks[t].status = FAILURE /\ Task_err(tasks[t]) = Some("ValueError")
        /\ tasks[u].status = EXCEPTION /\ tasks[u].exception = Some("Exception")

\* the coroutine __task__ of task t ends in this step, with another status
\* than SUCCESS
EndsNonSuccess(t) ==
    /\ tasks[t].child \in {"spawned", "susp"}
    /\ tasks'[t].child \in {"done", "raised"}
    /\ tasks'[t].status # SUCCESS

\* the step leaves everything but task t as it was
OnlyTask(t) ==
    /\ tm' = tm
    /\ body' = body
    /\ \A u \in TaskIds \ {t} : tasks'[u] = tasks[u]

\* C35 as stated: no step of a task that has no parent manager changes
\* anything outside the task, whatever status it ends in; and the fail-fast
\* request of a task whose parent manager is already cancelled changes
\* nothing.
C35_NothingOutside ==
    [][\A t \in TaskIds :
          /\ (/\ ~IsSome(tasks[t].parent_task_manager)
              /\ tasks'[t] # tasks[t]
              /\ body' = body)
             => OnlyTask(t)
          /\ (/\ IsSome(tasks[t].parent_task_manager)
              /\ tm.cancel_called
              /\ EndsNonSuccess(t))
             => OnlyTask(t)]_vars

\* C35 amended: the fail-fast request of a task that has no parent manager
\* is a no-op (the step that ends __task__ in another status than SUCCESS
\* changes nothing outside the task), and no step of such a task changes
\* anything outside it, except that an error that is not an Exception leaves
\* __call__ and reaches the task group the task runs in, which records it
\* and is cancelled; the fail-fast request of a task whose parent manager is
\* already cancelled changes nothing.
C35_FailFastNoop ==
    [][\A t \in TaskIds :
          /\ (~IsSome(tasks[t].parent_task_manager) /\ EndsNonSuccess(t))
             => OnlyTask(t)
          /\ (/\ ~IsSome(tasks[t].parent_task_manager)
              /\ tasks'[t] # tasks[t]
              /\ body' = body)
             => \/ OnlyTask(t)
                \/ /\ tasks[t].child = "raised"
                   /\ tasks[t].exception = Some("BaseException")
                   /\ tasks'[t].host = "done"
                   /\ tm' = [tm EXCEPT !.child_error = TRUE, !.cancel_called = TRUE]
          /\ (/\ IsSome(tasks[t].parent_task_manager)
              /\ tm.cancel_called
              /\ EndsNonSuccess(t))
             => OnlyTask(t)]_vars

\* C35 witness: two tasks without parent manager have ended in a plain task
\* group, one in FAILURE and one in CANCELLED after its own cancel(), the
\* body is still inside the task group, and the task group is not cancelled.
C35_Witness ==
    /\ body.plain /\ body.pc = "open"
    /\ ~tm.cancel_called
    /\ \E t, u \in TaskIds :
          /\ tasks[t].status = FAILURE /\ tasks[t].host = "done"
          /\ tasks[u].status = CANCELLED /\ tasks[u].host = "done"
          /\ ~IsSome(tasks[t].parent_task_manager)
          /\ ~IsSome(tasks[u].parent_task_manager)

\* a task that has a parent manager has ended in another status than
\* SUCCESS after a sibling had cancelled the manager
C35_AlreadyCancelled ==
    \E t, u \in TaskIds :
        /\ t < u
        /\ tasks[t].status = FAILURE
        /\ tasks[u].status = CANCELLED /\ tasks[u].child = "done"
        /\ IsSome(tasks[u].parent_task_manager)
        /\ ~body.cancel_calls /\ body.pc = "open"

\* the deadline that submit_task derives from its arguments is expired
ExpiredAtSubmit(timeout, deadline) ==
    LET deadline_option == create_deadline(timeout, deadline, now)
    IN  IsSome(deadline_option) /\ deadline_is_expired(Unwrap(deadline_option), now)

KillWaiting ==
    api.call.op = "kill" /\ api.call.state = "running" /\ body.pc = "wait"
\* a call of kill() on a task of the manager has returned
KillReturned ==
    api.call.op = "kill" /\ api.call.state = "returned" /\ api.call.task \in TaskIds

\* C37: kill() on a task that has been started returns, at once or after a
\* wait that ends; the status it returns is terminal and is the status of
\* the task; it returns at once exactly on a task that was terminal, with
\* the status the task had; and when it waited on a task whose function
\* has reached a suspension point, it returns CANCELLED or TIMEOUT, TIMEOUT
\* only for a task whose own deadline has elapsed.
C37_KillReturns ==
    /\ KillWaiting ~> KillReturned
    /\ [](KillReturned =>
            LET task == tasks[api.call.task]
                ret == Unwrap(api.call.ret)
            IN  /\ ret \in Terminal
                /\ ret = task.status
                /\ (api.call.suspended /\ task.left < MaxSusp)
                     => /\ ret \in {CANCELLED, TIMEOUT}
                        /\ ret = TIMEOUT
                             => /\ IsSome(task.deadline)
                                /\ now >= Unwrap(task.deadline))
    /\ [][\A t \in TaskIds :
            (Task_kill(t) /\ tasks[t].status # CREATED) =>
               IF tasks[t].status \in Terminal
               THEN /\ api'.call.state = "returned"
                    /\ api'.call.ret = Some(tasks[t].status)
                    /\ tasks' = tasks
               ELSE /\ api'.call.state = "running"
                    /\ body'.pc = "wait"]_vars

\* C37 witness: kill() was called on a PENDING task, waited, and has
\* returned CANCELLED.
C37_Witness ==
    /\ KillReturned /\ api.call.suspended
    /\ api.call.ret = Some(CANCELLED)
    /\ api.pending = {api.call.task}
    /\ tasks[api.call.task].left < MaxSusp

\* kill() of the manager is suspended in wait(), in the body inside the scope
KillInsideWaiting ==
    api.call.op = "TaskManager.kill" /\ api.call.state = "running" /\ body.pc = "kill"
\* kill() of the manager called by the body has returned
KillInsideReturned ==
    api.call.op = "TaskManager.kill" /\ api.call.state = "returned"

\* C38: kill() on an opened manager cancels the boundary; a kill() that
\* waits, in the body inside the scope or in another coroutine, returns
\* in the end; and when it has returned every task of the manager is
\* terminal.
C38_KillReturns ==
    /\ [][(TaskManager_kill \/ TaskManager_kill_inside) /\ tm.opened
            => tm'.cancel_called]_vars
    /\ (api.watch = "waiting") ~> (api.watch = "returned")
    /\ KillInsideWaiting ~> KillInsideReturned
    /\ []((KillInsideReturned \/ api.watch \in {"returned", "returned at once"})
            /\ tm.opened
            => \A t \in TaskIds : tasks[t].status \in Terminal)

\* C38, kill() called from another coroutine: it cancels the boundary, a
\* kill() that waits returns in the end unless the body is waiting in a
\* kill() of its own, and when it has returned on an opened manager the
\* shutdown event is set and every task is terminal.
C38_KillOutsideReturns ==
    /\ [][(TaskManager_kill \/ TaskManager_kill_inside) /\ tm.opened
            => tm'.cancel_called]_vars
    /\ (api.watch = "waiting") ~> (api.watch = "returned" \/ body.pc = "kill")
    /\ []((api.watch \in {"returned", "returned at once"} /\ tm.opened)
            => /\ tm.shutdown_set
               /\ \A t \in TaskIds : tasks[t].status \in Terminal)

\* C38: a state in which kill() called by the body inside the scope waits
\* for the shutdown event while every child has finished and the body, the
\* only coroutine that can set the event, is the one waiting.
C38_KillInsideStuck ==
    /\ KillInsideWaiting
    /\ Len(tasks) = MaxTasks
    /\ \A t \in TaskIds : tasks[t].host \in {"none", "done"}
    /\ ~tm.shutdown_set

\* C38: kill() called by another coroutine while two tasks were running
\* has waited and returned, both tasks ended CANCELLED.
C38_KillOutsideReturned ==
    /\ api.watch = "returned"
    /\ Len(tasks) = MaxTasks
    /\ \A t \in TaskIds : tasks[t].status = CANCELLED /\ tasks[t].left < MaxSusp

C39_TerminalKept ==
    \E t \in TaskIds :
        /\ EphemeralJoined(t)
        /\ body.exc
        /\ api.ncancel[t] = 0
        /\ tasks[t].status = FAILURE
        /\ api.call.ret = Some(FAILURE)

\* the task was submitted or started with neither a deadline nor a timeout
NoDeadlineCall ==
    \/ submit_task(PyNone, PyNone)
    \/ start_task(PyNone, PyNone)

\* C40: a task submitted or started with neither a deadline nor a timeout
\* holds no deadline and is not TIMEOUT at the call; a task that holds no
\* deadline is never TIMEOUT and the deadline of its scope never fires; so
\* it ends in SUCCESS, FAILURE, EXCEPTION or CANCELLED.
C40_NoDeadlineNoTimeout ==
    /\ [][NoDeadlineCall
            => /\ tasks'[Len(tasks')].deadline = NOTHING
               /\ tasks'[Len(tasks')].status = CREATED]_vars
    /\ [](\A t \in TaskIds :
            tasks[t].deadline = NOTHING
            => /\ tasks[t].status # TIMEOUT
               /\ tasks[t].scope \notin {"expired", "timeout"}
               /\ tasks[t].status \in Terminal
                    => tasks[t].status \in {SUCCESS, FAILURE, EXCEPTION, CANCELLED})

\* C40 witness: two tasks without deadline have ended at the last clock
\* reading, the first one FAILURE, which cancelled the manager, the second
\* one CANCELLED by that, after a cancel() of the body as well.
C40_Witness ==
    /\ Len(tasks) = 2
    /\ \A t \in TaskIds : tasks[t].deadline = NOTHING /\ tasks[t].host = "done"
    /\ tasks[1].status = FAILURE
    /\ tasks[2].status = CANCELLED /\ tasks[2].left < MaxSusp
    /\ tm.cancel_called /\ body.cancel_calls
    /\ now = MaxTime
====
